---- MODULE Spec2Model ----
(***************************************************************************)
(* Model of the alt-text generator for book repositories: the replacement  *)
(* engine (process_repo_files.replace_alt_text_in_chapter_content), the    *)
(* review merge (main.merge_review_data_with_repo_data) and the driver     *)
(* (main.main).                                                            *)
(*                                                                         *)
(* Text is modelled as a sequence of one-character strings, so that        *)
(* Python's str.replace is computed character by character.  An image tag  *)
(* <img src="S" alt="A"> is written  < S " A " >  with a one-character S.  *)
(***************************************************************************)
EXTENDS Integers, Sequences, FiniteSets, TLC

VARIABLES
    \* ---- replace_alt_text_in_chapter_content, called on its own ----
    r_content,      \* chapter_content handed to the next call
    r_images,       \* the Image objects (mutated in place by a call)
    r_rea,          \* replace_existing_alt
    r_input,        \* chapter_content of the first call
    r_before,       \* content handed to the latest call
    r_out,          \* value returned by the latest call
    r_raised,       \* the latest call raised instead of returning
    r_calls,        \* number of calls made
    \* ---- merge_review_data_with_repo_data, called on its own ----
    m_chapters,     \* all_chapters
    m_updates,      \* updated_img_src_and_alt_text
    m_before,       \* all_chapters before the call
    m_done,         \* the call has returned
    \* ---- main ----
    env,            \* what the run finds outside itself: the command line's files
    args,           \* parsed command line
    pc,             \* position in main
    status,         \* running, exited (sys.exit), the name of the exception raised,
                    \* interrupted (signal) or done
    answers,        \* what the user typed at each prompt ("unasked" before)
    chapter_filepaths,          \* main's chapter_filepaths
    img_filename_filter_list,   \* main's img_filename_filter_list
    all_chapters,   \* main's all_chapters
    gen_i,          \* index into all_images of the generation loop
    rep_i,          \* index into all_chapters of the replacement loop
    disk,           \* chapter files on disk: filepath -> content
    backup_file,    \* backup_<time>.json of this run: <<>>, or <<its contents>>
    review_file,    \* review_<time>.csv written by this run (or NoFile)
    gen_calls,      \* index in all_images of every generate_alt_text call made
    gen_pending,    \* a generate_alt_text call is in flight
    log,            \* file writes of the run, in order
    \* ---- a function of the program called on its own ----
    f_in,           \* the arguments of the call
    f_out,          \* what the call returned, or that it raised
    f_pc,           \* "start", then the name of the last step made
    f_text          \* the text the steps after the call work on

replVars  == <<r_content, r_images, r_rea, r_input, r_before, r_out, r_raised, r_calls>>
mergeVars == <<m_chapters, m_updates, m_before, m_done>>
mainVars  == <<env, args, pc, status, answers, chapter_filepaths,
               img_filename_filter_list, all_chapters, gen_i, rep_i, disk,
               backup_file, review_file, gen_calls, gen_pending, log>>
callVars  == <<f_in, f_out, f_pc, f_text>>
vars      == <<replVars, mergeVars, mainVars, callVars>>

-----------------------------------------------------------------------------
(* Bounds *)

MaxPieces == 2      \* pieces (tags or text characters) in a chapter content
MaxImages == 2      \* Image objects handed to one replacement call
MaxCalls  == 2      \* successive replacement calls on one content
MaxChapters    == 2 \* chapters of a project
MaxMergeImages == 1 \* Images per chapter handed to the merge
MaxRows        == 2 \* rows of a correction set

-----------------------------------------------------------------------------
(* Text *)

LT == "<"
GT == ">"
QT == "\""

\* Python's None where a str is optional.  No text equals it.
None == <<"None">>

\* Python truthiness of an Optional[str]
Truthy(s) == s # None /\ s # <<>>

RECURSIVE Interleave(_, _)
\* str.replace with an empty pattern: new before every character and at the end
Interleave(s, new) ==
    IF s = <<>> THEN new
    ELSE new \o <<Head(s)>> \o Interleave(Tail(s), new)

RECURSIVE ReplaceScan(_, _, _, _)
\* str.replace with a non-empty pattern: leftmost non-overlapping occurrences,
\* at most count of them (count < 0: all)
ReplaceScan(s, old, new, count) ==
    IF count = 0 \/ Len(s) < Len(old) THEN s
    ELSE IF SubSeq(s, 1, Len(old)) = old
         THEN new \o ReplaceScan(SubSeq(s, Len(old) + 1, Len(s)), old, new, count - 1)
         ELSE <<Head(s)>> \o ReplaceScan(Tail(s), old, new, count)

\* str.replace(old, new): every occurrence
str_replace(s, old, new) ==
    IF old = <<>> THEN Interleave(s, new) ELSE ReplaceScan(s, old, new, -1)

RECURSIVE Count(_, _)
\* number of (possibly overlapping) occurrences of a non-empty f in s
Count(s, f) ==
    IF Len(s) < Len(f) THEN 0
    ELSE (IF SubSeq(s, 1, Len(f)) = f THEN 1 ELSE 0) + Count(Tail(s), f)

RECURSIVE Flatten(_)
Flatten(ss) == IF ss = <<>> THEN <<>> ELSE Head(ss) \o Flatten(Tail(ss))

SeqsUpTo(S, n) == UNION { [1..k -> S] : k \in 0..n }

\* the literal text of an image tag with the given src and alt
MkTag(src, alt) == <<LT>> \o src \o <<QT>> \o alt \o <<QT, GT>>

-----------------------------------------------------------------------------
(* chapters_and_images.Image, with the fields main and the tests give it *)

\* an Image created as already replaced
ImgMarked(chapter, src, frag, alt, gen) ==
    [ chapter_filepath      |-> chapter,
      original_img_elem_str |-> frag,
      image_src             |-> src,
      image_filepath        |-> src,
      preceding_para_text   |-> <<>>,
      succeeding_para_text  |-> <<>>,
      caption_text          |-> <<>>,
      original_alt_text     |-> alt,
      generated_alt_text    |-> gen,
      alt_text_replaced     |-> TRUE ]

Img(chapter, src, frag, alt, gen) ==
    [ chapter_filepath      |-> chapter,
      original_img_elem_str |-> frag,
      image_src             |-> src,
      image_filepath        |-> src,
      preceding_para_text   |-> <<>>,
      succeeding_para_text  |-> <<>>,
      caption_text          |-> <<>>,
      original_alt_text     |-> alt,
      generated_alt_text    |-> gen,
      alt_text_replaced     |-> FALSE ]

-----------------------------------------------------------------------------
(* process_repo_files.replace_alt_text_in_chapter_content *)

AttemptAlways(image, replace_existing_alt) == TRUE

\* line 337: if (replace_existing_alt or not image.original_alt_text)
ShouldAttempt(image, replace_existing_alt) ==
    replace_existing_alt \/ ~Truthy(image.original_alt_text)

\* line 338: the exception raised when a str method meets None
\* (AttributeError for a None fragment, TypeError for a None argument)
ReplaceRaises(image) ==
    \/ image.original_img_elem_str = None
    \/ image.original_alt_text = None
    \/ image.generated_alt_text = None

\* line 338: replacement_string
replacement_string(image) ==
    str_replace(image.original_img_elem_str, image.original_alt_text,
                image.generated_alt_text)

ReplaceAltInContent(updated_chapter_content, image) ==
    str_replace(updated_chapter_content, image.original_alt_text,
                image.generated_alt_text)

\* line 339: updated_chapter_content.replace(string_to_replace, replacement_string)
ReplaceInContent(updated_chapter_content, image) ==
    str_replace(updated_chapter_content, image.original_img_elem_str,
                replacement_string(image))

\* line 340: image.alt_text_replaced = True
MarkReplaced(image) == [image EXCEPT !.alt_text_replaced = TRUE]

RECURSIVE ReplaceLoop(_, _, _, _)
\* lines 335-340: the loop over images, from the i-th on.  A raise leaves the
\* images marked so far marked and returns nothing.
ReplaceLoop(updated_chapter_content, images, i, replace_existing_alt) ==
    IF i > Len(images)
    THEN [content |-> updated_chapter_content, images |-> images, raised |-> FALSE]
    ELSE IF ~ShouldAttempt(images[i], replace_existing_alt)
    THEN ReplaceLoop(updated_chapter_content, images, i + 1, replace_existing_alt)
    ELSE IF ReplaceRaises(images[i])
    THEN [content |-> None, images |-> images, raised |-> TRUE]
    ELSE ReplaceLoop(ReplaceInContent(updated_chapter_content, images[i]),
                     [images EXCEPT ![i] = MarkReplaced(images[i])],
                     i + 1, replace_existing_alt)

\* lines 323-342
replace_alt_text_in_chapter_content(chapter_content, images, replace_existing_alt) ==
    ReplaceLoop(chapter_content, images, 1, replace_existing_alt)

-----------------------------------------------------------------------------
(* Inputs of the replacement engine *)

\* the image tags of the inputs, as (src, alt): the same image without alt
\* text and with two different alt texts
TagKinds == { << <<"x">>, <<>> >>, << <<"x">>, <<"a">> >>, << <<"x">>, <<"b">> >> }
\* generated text: absent, or text as html.escape returns it (no markup
\* character; generate_alt_text.py line 81, main.py line 85)
GenTexts == { None, <<"b">>, <<"c">> }
Tags     == { MkTag(t[1], t[2]) : t \in TagKinds }
Pieces   == Tags \cup { <<"a">> }
Contents == { Flatten(ps) : ps \in SeqsUpTo(Pieces, MaxPieces) }
ReplImgs == { Img("ch1.html", t[1], MkTag(t[1], t[2]), t[2], g) : t \in TagKinds, g \in GenTexts }
ReplImgLists == SeqsUpTo(ReplImgs, MaxImages) \ { <<>> }

-----------------------------------------------------------------------------
(* Values of the variables a specification does not use *)

NoFile == <<"NoFile">>

ReplIdle ==
    /\ r_content = <<>> /\ r_images = <<>> /\ r_rea = TRUE /\ r_input = <<>>
    /\ r_before = <<>> /\ r_out = <<>> /\ r_raised = FALSE /\ r_calls = 0

MergeIdle ==
    /\ m_chapters = <<>> /\ m_updates = <<>> /\ m_before = <<>> /\ m_done = FALSE

MainIdle ==
    /\ env = <<>> /\ args = <<>> /\ pc = "idle" /\ status = "idle"
    /\ answers = <<>> /\ chapter_filepaths = <<>> /\ img_filename_filter_list = <<>>
    /\ all_chapters = <<>> /\ gen_i = 0 /\ rep_i = 0 /\ disk = <<>>
    /\ backup_file = <<>> /\ review_file = NoFile
    /\ gen_calls = <<>> /\ gen_pending = FALSE /\ log = <<>>

CallIdle ==
    /\ f_in = <<>> /\ f_out = <<>> /\ f_pc = "idle" /\ f_text = <<>>

-----------------------------------------------------------------------------
(* SpecReplace: replace_alt_text_in_chapter_content called up to MaxCalls    *)
(* times, each call on the content the previous call returned and on the     *)
(* same Image objects.                                                       *)

InitReplace ==
    /\ r_content \in Contents
    /\ r_images \in ReplImgLists
    /\ r_rea \in BOOLEAN
    /\ r_input = r_content
    /\ r_before = r_content
    /\ r_out = r_content
    /\ r_raised = FALSE
    /\ r_calls = 0
    /\ MergeIdle /\ MainIdle /\ CallIdle

ReplaceCall ==
    /\ r_calls < MaxCalls
    /\ ~r_raised
    /\ LET res == replace_alt_text_in_chapter_content(r_content, r_images, r_rea)
       IN /\ r_before' = r_content
          /\ r_out' = res.content
          /\ r_raised' = res.raised
          /\ r_images' = res.images
          /\ r_content' = IF res.raised THEN r_content ELSE res.content
    /\ r_calls' = r_calls + 1
    /\ UNCHANGED <<r_rea, r_input>>
    /\ UNCHANGED <<mergeVars, mainVars, callVars>>

NextReplace == ReplaceCall

SpecReplace == InitReplace /\ [][NextReplace]_vars

-----------------------------------------------------------------------------
(* Claims about the replacement engine, checked under SpecReplace *)

Frag(i) == r_images[i].original_img_elem_str
OAlt(i) == r_images[i].original_alt_text
Gen(i)  == r_images[i].generated_alt_text
Flag(i) == r_images[i].alt_text_replaced
ImgIx   == 1..Len(r_images)

\* the condition of section 4.4 under which replacement is attempted
Attempted(i) == r_rea \/ OAlt(i) = <<>>

\* the fragment with only its alt value replaced by the generated text
ExpectedFragment(i) == MkTag(r_images[i].image_src, Gen(i))

\* every listed Image is attempted, has generated text, and its fragment
\* occurs exactly once in the content of the first call
EachOnceAndGenerated ==
    \A i \in ImgIx : /\ Count(r_input, Frag(i)) = 1
                     /\ Gen(i) # None
                     /\ Attempted(i)

\* no Image's generated text is another listed Image's original alt text
NoGenIsOtherAlt ==
    \A i \in ImgIx : \A j \in ImgIx : i # j => Gen(i) # OAlt(j)

C2_AttemptedIff ==
    r_calls >= 1 =>
        /\ ~r_raised => \A i \in ImgIx : Flag(i) <=> (r_rea \/ OAlt(i) = <<>>)
        /\ \A i \in ImgIx : (~r_rea /\ OAlt(i) # <<>>) =>
               /\ ~Flag(i)
               /\ ~r_raised => Count(r_out, Frag(i)) = Count(r_before, Frag(i))
        /\ (~r_raised /\ \A i \in ImgIx : ~r_rea /\ OAlt(i) # <<>>) => r_out = r_before

\* C2 witness: a call under replace_existing_alt = false has returned, it
\* rewrote an Image without alt text and left in place the fragment of an
\* Image that has alt text.
C2_Witness ==
    /\ r_calls = 1 /\ ~r_raised /\ ~r_rea
    /\ r_out # r_before
    /\ \E i \in ImgIx : OAlt(i) # <<>> /\ ~Flag(i) /\ Count(r_out, Frag(i)) = 1
    /\ \E j \in ImgIx : OAlt(j) = <<>> /\ Flag(j)

\* C3: for an attempted Image whose fragment occurs once, the returned content
\* is the input with that fragment's alt value, and nothing else of the
\* fragment, replaced by generated_alt_text.
C3_OnlyAltValueReplaced ==
    ( /\ r_calls = 1 /\ ~r_raised /\ Len(r_images) = 1
      /\ Attempted(1) /\ Count(r_input, Frag(1)) = 1 ) =>
        r_out = ReplaceScan(r_input, Frag(1), ExpectedFragment(1), 1)

\* C4: an Image without generated_alt_text is left untouched: the call
\* completes without error, the content at its fragment is unchanged and its
\* alt_text_replaced stays false.
C4_NoGeneratedTextUntouched ==
    (r_calls >= 1 /\ \E i \in ImgIx : Gen(i) = None) =>
        /\ ~r_raised
        /\ \A i \in ImgIx : Gen(i) = None =>
               ~Flag(i) /\ Count(r_out, Frag(i)) = Count(r_before, Frag(i))

\* C5: alt_text_replaced is true only if the Image's fragment was found in the
\* content (as given, or as left by an Image replaced before it).
C5_MarkedOnlyIfFound ==
    (r_calls = 1 /\ ~r_raised) =>
        \A i \in ImgIx : Flag(i) =>
            \/ Count(r_input, Frag(i)) >= 1
            \/ \E j \in 1..(i - 1) : Flag(j)

\* C6: when the fragment of the one Image processed occurs two or more times,
\* only its first occurrence is replaced: at most one occurrence is gone.
C6_FirstOccurrenceOnly ==
    ( /\ r_calls = 1 /\ ~r_raised /\ Len(r_images) = 1
      /\ Attempted(1) /\ Count(r_input, Frag(1)) >= 2 ) =>
        Count(r_out, Frag(1)) >= Count(r_input, Frag(1)) - 1

-----------------------------------------------------------------------------
(* SpecFrame: replace_alt_text_in_chapter_content called as in SpecReplace,  *)
(* on Images whose generated text can hold a markup character and on         *)
(* contents that hold text next to the image tags.                           *)

\* the end of an image tag, as text that follows a tag
TagTail == <<"y", QT, QT, GT>>

FramePieces ==
    { MkTag(<<"x">>, <<>>), MkTag(<<"x">>, <<"a">>), MkTag(<<"y">>, <<>>), TagTail }
FrameContents == { Flatten(ps) : ps \in SeqsUpTo(FramePieces, MaxPieces) }
FrameImgs ==
    { Img("ch1.html", <<"x">>, MkTag(<<"x">>, <<>>), <<>>, <<"b">>),
      Img("ch1.html", <<"x">>, MkTag(<<"x">>, <<>>), <<>>, <<LT>>),
      Img("ch1.html", <<"x">>, MkTag(<<"x">>, <<"a">>), <<"a">>, <<LT>>),
      Img("ch1.html", <<"y">>, MkTag(<<"y">>, <<>>), <<>>, <<"b">>) }
FrameImgLists == SeqsUpTo(FrameImgs, MaxImages) \ { <<>> }

InitFrame ==
    /\ r_content \in FrameContents
    /\ r_images \in FrameImgLists
    /\ r_rea \in BOOLEAN
    /\ r_input = r_content
    /\ r_before = r_content
    /\ r_out = r_content
    /\ r_raised = FALSE
    /\ r_calls = 0
    /\ MergeIdle /\ MainIdle /\ CallIdle

SpecFrame == InitFrame /\ [][NextReplace]_vars

-----------------------------------------------------------------------------
(* Claims about the text outside the image fragments, checked under SpecFrame *)

IsPrefix(f, s) == Len(f) <= Len(s) /\ SubSeq(s, 1, Len(f)) = f

RECURSIVE FrameOk(_, _, _)
\* out is in with some occurrences of the fragments frags replaced by other
\* text, and every other character kept, in order
FrameOk(in, out, frags) ==
    IF in = <<>> THEN out = <<>>
    ELSE \/ /\ out # <<>>
            /\ Head(in) = Head(out)
            /\ FrameOk(Tail(in), Tail(out), frags)
         \/ \E f \in frags :
                /\ IsPrefix(f, in)
                /\ \E k \in 0..Len(out) :
                       FrameOk(SubSeq(in, Len(f) + 1, Len(in)),
                               SubSeq(out, k + 1, Len(out)), frags)

AttemptedFrags == { Frag(i) : i \in { j \in ImgIx : Attempted(j) } }

\* C25: the content a call returns differs from the content it was given only
\* inside occurrences of the original_img_elem_str of the attempted Images:
\* the text before, between and after them is unchanged and in order.
C25_OnlyFragmentsChange ==
    (r_calls >= 1 /\ ~r_raised) => FrameOk(r_before, r_out, AttemptedFrags)

\* the part of C25 the engine keeps: calls in which no attempted Image has an
\* empty original_alt_text
C25_OnlyFragmentsChangeAltNotEmpty ==
    (r_calls >= 1 /\ ~r_raised /\ \A i \in ImgIx : Attempted(i) => OAlt(i) # <<>>) =>
        FrameOk(r_before, r_out, AttemptedFrags)

\* the same for generated text without markup characters
C25_OnlyFragmentsChangeEscapedText ==
    (r_calls >= 1 /\ ~r_raised /\ \A i \in ImgIx : Gen(i) # <<LT>>) =>
        FrameOk(r_before, r_out, AttemptedFrags)

-----------------------------------------------------------------------------
(* chapters_and_images.Chapter *)

\* the path of the k-th chapter file of a project, for each suffix of name
FilePath(k, suffix) ==
    CASE suffix = ".html" -> <<"ch1.html", "ch2.html", "ch3.html", "ch4.html">>[k]
      [] suffix = ".adoc" -> <<"ch1.adoc", "ch2.adoc", "ch3.adoc", "ch4.adoc">>[k]
      [] suffix = ".asc"  -> <<"ch1.asc", "ch2.asc", "ch3.asc", "ch4.asc">>[k]

ChapterPath(k) == FilePath(k, ".html")

\* process_repo_files.detect_format, lines 312-320
detect_format(path) ==
    IF \E k \in 1..4 : path = FilePath(k, ".html") THEN "html" ELSE "asciidoc"

Chapter(filepath, content, images) ==
    [ filepath       |-> filepath,
      content        |-> content,
      chapter_format |-> detect_format(filepath),
      images         |-> images ]

-----------------------------------------------------------------------------
(* main.merge_review_data_with_repo_data *)

\* the text of the first row whose key is img_src, or None
MapGetFirst(updated_img_src_and_alt_text, img_src) ==
    LET rows == { k \in DOMAIN updated_img_src_and_alt_text :
                      updated_img_src_and_alt_text[k][1] = img_src }
    IN IF rows = {} THEN None
       ELSE updated_img_src_and_alt_text[CHOOSE k \in rows : \A j \in rows : k <= j][2]

\* line 106 and dict.get: the text of the last row whose key is img_src, or None
MapGet(updated_img_src_and_alt_text, img_src) ==
    LET rows == { k \in DOMAIN updated_img_src_and_alt_text :
                      updated_img_src_and_alt_text[k][1] = img_src }
    IN IF rows = {} THEN None
       ELSE updated_img_src_and_alt_text[CHOOSE k \in rows : \A j \in rows : j <= k][2]

MergeImageAnyRow(image, updated_img_src_and_alt_text) ==
    IF updated_img_src_and_alt_text # <<>>
    THEN [image EXCEPT !.generated_alt_text = updated_img_src_and_alt_text[1][2]]
    ELSE image

\* lines 109-110
MergeImage(image, updated_img_src_and_alt_text) ==
    IF Truthy(MapGet(updated_img_src_and_alt_text, image.image_src))
    THEN [image EXCEPT !.generated_alt_text =
              MapGet(updated_img_src_and_alt_text, image.image_src)]
    ELSE image

\* lines 95-110
merge_review_data_with_repo_data(updated_img_src_and_alt_text, chapters) ==
    [ c \in DOMAIN chapters |->
        [ chapters[c] EXCEPT !.images =
            [ i \in DOMAIN chapters[c].images |->
                MergeImage(chapters[c].images[i], updated_img_src_and_alt_text) ] ] ]

-----------------------------------------------------------------------------
(* SpecMerge: merge_review_data_with_repo_data called once *)

MergeImgs ==
    { Img("ch1.html", src, MkTag(src, <<>>), <<>>, g) :
          src \in { <<"x">>, <<"y">> }, g \in { None, <<"b">> } }
\* correction rows: a key some Image has and one none has; empty and real text
MergeRows == { <<k, t>> : k \in { <<"x">>, <<"z">> }, t \in { <<>>, <<"c">> } }
MergeChapterSets ==
    { [ c \in DOMAIN iss |-> Chapter(ChapterPath(c), <<>>, iss[c]) ] :
          iss \in SeqsUpTo(SeqsUpTo(MergeImgs, MaxMergeImages), MaxChapters) }

InitMerge ==
    /\ m_chapters \in MergeChapterSets
    /\ m_updates \in SeqsUpTo(MergeRows, MaxRows)
    /\ m_before = m_chapters
    /\ m_done = FALSE
    /\ ReplIdle /\ MainIdle /\ CallIdle

MergeCall ==
    /\ ~m_done
    /\ m_chapters' = merge_review_data_with_repo_data(m_updates, m_chapters)
    /\ m_done' = TRUE
    /\ UNCHANGED <<m_updates, m_before>>
    /\ UNCHANGED <<replVars, mainVars, callVars>>

NextMerge == MergeCall

SpecMerge == InitMerge /\ [][NextMerge]_vars

-----------------------------------------------------------------------------
(* Claims about the merge, checked under SpecMerge *)

\* the rows of the correction set whose key is src
RowsFor(src) == { k \in DOMAIN m_updates : m_updates[k][1] = src }

\* C10: after the merge every Image is as before except, at most, for its
\* generated_alt_text, which changes only for an Image whose image_src is a key
\* of the correction set, and then to a text the set gives for that key (its
\* last row's, when that is not empty); all other Images, chapters and fields
\* are unchanged, and keys matching no Image change nothing.
C10_MergeOnlyMatching ==
    m_done =>
        /\ DOMAIN m_chapters = DOMAIN m_before
        /\ \A c \in DOMAIN m_chapters :
            /\ [m_chapters[c] EXCEPT !.images = m_before[c].images] = m_before[c]
            /\ DOMAIN m_chapters[c].images = DOMAIN m_before[c].images
            /\ \A i \in DOMAIN m_chapters[c].images :
                LET old == m_before[c].images[i]
                    new == m_chapters[c].images[i]
                IN /\ [new EXCEPT !.generated_alt_text = old.generated_alt_text] = old
                   /\ RowsFor(old.image_src) = {} =>
                          new.generated_alt_text = old.generated_alt_text
                   /\ new.generated_alt_text # old.generated_alt_text =>
                          \E k \in RowsFor(old.image_src) :
                              /\ new.generated_alt_text = m_updates[k][2]
                              /\ \A j \in RowsFor(old.image_src) : j <= k
                   /\ \A k \in RowsFor(old.image_src) :
                          ((\A j \in RowsFor(old.image_src) : j <= k)
                              /\ m_updates[k][2] # <<>>) =>
                                  new.generated_alt_text = m_updates[k][2]

\* C10 witness: a merge has updated one Image and left alone an Image without
\* generated text whose src is no key, with a row whose key no Image has.
C10_Witness ==
    /\ m_done
    /\ \E c \in DOMAIN m_chapters : \E i \in DOMAIN m_chapters[c].images :
           /\ m_before[c].images[i].generated_alt_text = <<"b">>
           /\ m_chapters[c].images[i].generated_alt_text = <<"c">>
    /\ \E c \in DOMAIN m_chapters : \E i \in DOMAIN m_chapters[c].images :
           /\ RowsFor(m_chapters[c].images[i].image_src) = {}
           /\ m_chapters[c].images[i].generated_alt_text = None
    /\ \E k \in DOMAIN m_updates : m_updates[k][1] = <<"z">>

\* the last row of the correction set whose key is src
LastRowFor(src) == CHOOSE k \in RowsFor(src) : \A j \in RowsFor(src) : j <= k

\* C30: the merge never removes generated text: an Image that had non-empty
\* generated_alt_text has non-empty generated_alt_text after it; when the last
\* row for its image_src has an empty text the Image's text is unchanged, and
\* when that row has text the Image has that text.
C30_MergeKeepsText ==
    m_done =>
        \A c \in DOMAIN m_before : \A i \in DOMAIN m_before[c].images :
            LET old == m_before[c].images[i]
                new == m_chapters[c].images[i]
            IN Truthy(old.generated_alt_text) =>
                   /\ Truthy(new.generated_alt_text)
                   /\ RowsFor(old.image_src) # {} =>
                          new.generated_alt_text =
                              IF m_updates[LastRowFor(old.image_src)][2] = <<>>
                              THEN old.generated_alt_text
                              ELSE m_updates[LastRowFor(old.image_src)][2]

\* C30 witness: an Image with generated text has been merged with a set that
\* lists its image_src twice, first with an empty text and last with a text.
C30_Witness ==
    /\ m_done
    /\ Len(m_updates) = 2
    /\ m_updates[1] = << <<"x">>, <<>> >>
    /\ m_updates[2] = << <<"x">>, <<"c">> >>
    /\ \E c \in DOMAIN m_before : \E i \in DOMAIN m_before[c].images :
           /\ m_before[c].images[i].image_src = <<"x">>
           /\ m_before[c].images[i].generated_alt_text = <<"b">>
           /\ m_chapters[c].images[i].generated_alt_text = <<"c">>

-----------------------------------------------------------------------------
(* Text conversions used by main and by the scanner *)

RECURSIVE LStrip(_)
LStrip(s) == IF s # <<>> /\ Head(s) = " " THEN LStrip(Tail(s)) ELSE s

RECURSIVE RStrip(_)
RStrip(s) == IF s # <<>> /\ s[Len(s)] = " " THEN RStrip(SubSeq(s, 1, Len(s) - 1)) ELSE s

\* str.strip()
Strip(s) == RStrip(LStrip(s))

RECURSIVE html_escape(_)
\* html.escape(s, quote=True)
html_escape(s) ==
    IF s = <<>> THEN <<>>
    ELSE (CASE Head(s) = "&" -> <<"&", "a", "m", "p", ";">>
            [] Head(s) = LT  -> <<"&", "l", "t", ";">>
            [] Head(s) = GT  -> <<"&", "g", "t", ";">>
            [] Head(s) = QT  -> <<"&", "q", "u", "o", "t", ";">>
            [] Head(s) = "'" -> <<"&", "#", "x", "2", "7", ";">>
            [] OTHER         -> <<Head(s)>>) \o html_escape(Tail(s))

\* position of the first ch in s, 0 if none
IndexOf(s, ch) ==
    IF \E k \in 1..Len(s) : s[k] = ch
    THEN CHOOSE k \in 1..Len(s) : s[k] = ch /\ \A j \in 1..(k - 1) : s[j] # ch
    ELSE 0

-----------------------------------------------------------------------------
(* process_repo_files.collect_image_data_from_chapter_file *)

RECURSIVE img_tag_matches(_)
\* lines 136, 151: re.findall(r'<img\b[^>]*?>', chapter_text_content)
img_tag_matches(text) ==
    IF text = <<>> THEN <<>>
    ELSE IF Head(text) = LT /\ IndexOf(text, GT) > 0
    THEN <<SubSeq(text, 1, IndexOf(text, GT))>>
             \o img_tag_matches(SubSeq(text, IndexOf(text, GT) + 1, Len(text)))
    ELSE img_tag_matches(Tail(text))

\* the src attribute of a tag's text: the characters before the first quote
\* (None: the tag has no src attribute)
TagSrc(tag) ==
    IF IndexOf(tag, QT) <= 2 THEN None ELSE SubSeq(tag, 2, IndexOf(tag, QT) - 1)

\* the alt attribute of a tag's text: the characters between the quotes
TagAlt(tag) ==
    LET rest == SubSeq(tag, IndexOf(tag, QT) + 1, Len(tag))
    IN IF IndexOf(tag, QT) = 0 \/ IndexOf(rest, QT) = 0 THEN <<>>
       ELSE SubSeq(rest, 1, IndexOf(rest, QT) - 1)

\* lines 137, 149: soup.find_all('img'), in document order
img_elements(text) ==
    [ k \in DOMAIN img_tag_matches(text) |->
        [ src |-> TagSrc(img_tag_matches(text)[k]),
          alt |-> TagAlt(img_tag_matches(text)[k]) ] ]

\* a local variable not yet assigned
Unbound == <<"Unbound">>

RECURSIVE BuildTagMap(_, _, _, _, _)
\* lines 153-168: original_img_tags_by_src, as (src, literal) pairs in order of
\* insertion.  src and img_tag_string keep their value from the previous
\* match when a match has no src attribute.
BuildTagMap(matches, k, src, img_tag_string, map) ==
    IF k > Len(matches) THEN [map |-> map, raised |-> FALSE]
    ELSE LET has  == TagSrc(matches[k]) # None
             src2 == IF has THEN TagSrc(matches[k]) ELSE src
             str2 == IF has THEN matches[k] ELSE img_tag_string
         IN IF src2 = Unbound THEN [map |-> map, raised |-> TRUE]
            ELSE BuildTagMap(matches, k + 1, src2, str2,
                             IF src2 # <<>> THEN Append(map, <<src2, str2>>) ELSE map)

\* line 208: (original_img_tags_by_src.get(img_src) or [None])[0]
FirstTagFor(map, img_src) ==
    IF \E k \in DOMAIN map : map[k][1] = img_src
    THEN map[CHOOSE k \in DOMAIN map :
                 map[k][1] = img_src /\ \A j \in 1..(k - 1) : map[j][1] # img_src][2]
    ELSE None

\* the image files of the project directory (all of a supported type)
ImageFiles ==
    { <<"x">>, <<"y">>, <<"i", "/", "x">>,
      <<"c", "a", "l", "l", "o", "u", "t", "s", "/", "x">> }

\* lines 269-275
is_local_relative_path(src) == src # <<>> /\ Head(src) # "/" /\ IndexOf(src, ":") = 0

\* lines 278-283
resolve_image_path(src) ==
    IF is_local_relative_path(src) /\ src \in ImageFiles THEN src ELSE None

RECURSIVE PathName(_)
\* line 192: Path.name, the last component of a path
PathName(path) ==
    IF IndexOf(path, "/") = 0 THEN path
    ELSE PathName(SubSeq(path, IndexOf(path, "/") + 1, Len(path)))

NeverCallout(img_src) == FALSE

\* line 181: 'callouts/' in img_src
IsCallout(img_src) ==
    \E k \in 1..(Len(img_src) - 8) :
        SubSeq(img_src, k, k + 8) = <<"c", "a", "l", "l", "o", "u", "t", "s", "/">>

FilteredOutByPath(img_filename_filter_list_arg, img_filepath) ==
    /\ img_filename_filter_list_arg # None
    /\ \A j \in DOMAIN img_filename_filter_list_arg :
           img_filename_filter_list_arg[j] # img_filepath

\* lines 190-193: a filter list is present and the file's name is not in it
FilteredOut(img_filename_filter_list_arg, img_filepath) ==
    /\ img_filename_filter_list_arg # None
    /\ \A j \in DOMAIN img_filename_filter_list_arg :
           img_filename_filter_list_arg[j] # PathName(img_filepath)

HasAltUntrimmed(skip_existing_alt_text, img_alt_text) ==
    skip_existing_alt_text /\ img_alt_text # <<>>

\* lines 203, 210: skip_existing_alt_text and img_alt_text.strip() != ''
HasAlt(skip_existing_alt_text, img_alt_text) ==
    skip_existing_alt_text /\ Strip(img_alt_text) # <<>>

RECURSIVE CollectLoop(_, _, _, _, _, _, _)
\* lines 172-251: the loop over img_elements, from the k-th on
CollectLoop(elems, k, map, chapter_filepath, skip_existing_alt_text, img_filename_filter_list_arg, images) ==
    IF k > Len(elems) THEN [images |-> images, raised |-> FALSE]
    ELSE LET img_src == elems[k].src
             next == CollectLoop(elems, k + 1, map, chapter_filepath,
                                 skip_existing_alt_text,
                                 img_filename_filter_list_arg, images)
         IN IF ~Truthy(img_src) THEN next
            ELSE IF IsCallout(img_src) THEN next
            \* line 186: resolve_image_path returned None: None.exists raises
            ELSE IF resolve_image_path(img_src) = None
            THEN [images |-> images, raised |-> TRUE]
            ELSE IF FilteredOut(img_filename_filter_list_arg,
                                resolve_image_path(img_src))
            THEN next
            ELSE IF HasAlt(skip_existing_alt_text, elems[k].alt) THEN next
            ELSE CollectLoop(elems, k + 1, map, chapter_filepath,
                             skip_existing_alt_text, img_filename_filter_list_arg,
                             Append(images,
                                    Img(chapter_filepath, img_src,
                                        FirstTagFor(map, img_src),
                                        elems[k].alt, None)))

\* the text image: that opens an image macro
MacroMark == "%"

\* the literal text of an asciidoc image macro, image:src[alt]
MkMacro(src, alt) == <<MacroMark>> \o src \o <<"[">> \o alt \o <<"]">>

\* the end of the macro that starts at the head of text, 0 if none does
MacroEnd(text) ==
    IF text = <<>> \/ Head(text) # MacroMark \/ IndexOf(text, "[") = 0 THEN 0
    ELSE LET lb == IndexOf(text, "[")
             rb == IndexOf(SubSeq(text, lb + 1, Len(text)), "]")
         IN IF rb = 0 THEN 0 ELSE lb + rb

RECURSIVE macro_matches(_, _)
\* lines 139, 151: re.findall(r'^(image:{1,2}(.*?)\[.*?\])', text, MULTILINE),
\* as (whole macro, src, alt); bol: the head of text is at the start of a line
macro_matches(text, bol) ==
    IF text = <<>> THEN <<>>
    ELSE IF bol /\ MacroEnd(text) > 0
    THEN << [ full |-> SubSeq(text, 1, MacroEnd(text)),
              src  |-> SubSeq(text, 2, IndexOf(text, "[") - 1),
              alt  |-> SubSeq(text, IndexOf(text, "[") + 1, MacroEnd(text) - 1) ] >>
             \o macro_matches(SubSeq(text, MacroEnd(text) + 1, Len(text)), FALSE)
    ELSE macro_matches(Tail(text), Head(text) = "\n")

RECURSIVE inline_macros(_)
\* the image macros the asciidoctor executable finds in a text, as (whole
\* macro, src, alt): an inline image macro is one wherever it is on its line
inline_macros(text) ==
    IF text = <<>> THEN <<>>
    ELSE IF MacroEnd(text) > 0
    THEN << [ full |-> SubSeq(text, 1, MacroEnd(text)),
              src  |-> SubSeq(text, 2, IndexOf(text, "[") - 1),
              alt  |-> SubSeq(text, IndexOf(text, "[") + 1, MacroEnd(text) - 1) ] >>
             \o inline_macros(SubSeq(text, MacroEnd(text) + 1, Len(text)))
    ELSE inline_macros(Tail(text))

\* the html the asciidoctor executable writes for a text (lines 96-110): one
\* img element for each image macro, with the macro's target and alt text
asciidoctor_html(asciidoc_content) ==
    LET ms == inline_macros(asciidoc_content)
    IN Flatten([ k \in DOMAIN ms |-> MkTag(ms[k].src, ms[k].alt) ])

\* a conversion that yields an empty document when the executable fails
convert_or_empty(asciidoc_content, asciidoctor) ==
    IF asciidoctor = "ok" THEN asciidoctor_html(asciidoc_content) ELSE <<>>

\* lines 82-120: the html, or None when the executable exits with an error
\* ("error") or is not found ("missing"): AsciidoctorConversionError
convert_asciidoc_string_to_html(asciidoc_content, asciidoctor) ==
    IF asciidoctor = "ok" THEN asciidoctor_html(asciidoc_content) ELSE None

RECURSIVE BuildMacroMap(_, _, _)
\* lines 153-168, asciidoc case: src and the whole macro of every match
BuildMacroMap(matches, k, map) ==
    IF k > Len(matches) THEN map
    ELSE BuildMacroMap(matches, k + 1,
                       IF matches[k].src # <<>>
                       THEN Append(map, <<matches[k].src, matches[k].full>>)
                       ELSE map)

\* lines 151-168: the literal map the scan builds, as (src, literal) pairs in
\* order of insertion, or the UnboundLocalError of line 167
original_img_tags_by_src(chapter_text_content, chapter_format) ==
    IF chapter_format = "html"
    THEN BuildTagMap(img_tag_matches(chapter_text_content), 1, Unbound, Unbound, <<>>)
    ELSE [ map    |-> BuildMacroMap(macro_matches(chapter_text_content, TRUE), 1, <<>>),
           raised |-> FALSE ]

\* lines 123-253, with the state of the asciidoctor executable
collect_image_data_from_chapter_file(chapter_text_content, chapter_filepath, skip_existing_alt_text, img_filename_filter_list_arg, chapter_format, asciidoctor) ==
    IF chapter_format = "html"
    THEN LET built == BuildTagMap(img_tag_matches(chapter_text_content), 1,
                                  Unbound, Unbound, <<>>)
         IN IF built.raised
            THEN [images |-> <<>>, raised |-> TRUE, error |-> "UnboundLocalError"]
            ELSE LET got == CollectLoop(img_elements(chapter_text_content), 1,
                                        built.map, chapter_filepath,
                                        skip_existing_alt_text,
                                        img_filename_filter_list_arg, <<>>)
                 IN [images |-> IF got.raised THEN <<>> ELSE got.images,
                     raised |-> got.raised,
                     error  |-> IF got.raised THEN "AttributeError" ELSE "none"]
    ELSE LET html_text == convert_asciidoc_string_to_html(chapter_text_content,
                                                          asciidoctor)
         IN IF html_text = None
            THEN [images |-> <<>>, raised |-> TRUE,
                  error |-> "AsciidoctorConversionError"]
            ELSE LET got == CollectLoop(
                                img_elements(html_text), 1,
                                BuildMacroMap(macro_matches(chapter_text_content, TRUE),
                                              1, <<>>),
                                chapter_filepath, skip_existing_alt_text,
                                img_filename_filter_list_arg, <<>>)
                 IN [images |-> IF got.raised THEN <<>> ELSE got.images,
                     raised |-> got.raised,
                     error  |-> IF got.raised THEN "AttributeError" ELSE "none"]

-----------------------------------------------------------------------------
(* main: snapshot and review files *)

JsonNull == <<"null">>

\* a Path as mode="json" dumps it: the string of the path
PathToJson(path) == <<"str", path>>

\* a Path field validated from its JSON string
PathFromJson(j) == j[2]

\* Image.model_dump(mode="json"): None becomes null, a Path its string
ImageToJson(image) ==
    [image EXCEPT !.generated_alt_text = IF @ = None THEN JsonNull ELSE @,
                  !.original_img_elem_str = IF @ = None THEN JsonNull ELSE @,
                  !.chapter_filepath = PathToJson(@),
                  !.image_filepath = PathToJson(@)]

\* Image.model_validate
ImageFromJson(j) ==
    [j EXCEPT !.generated_alt_text = IF @ = JsonNull THEN None ELSE @,
              !.original_img_elem_str = IF @ = JsonNull THEN None ELSE @,
              !.chapter_filepath = PathFromJson(@),
              !.image_filepath = PathFromJson(@)]

\* a dump that records no Image as replaced
write_backup_unmarked(input_data) ==
    [ c \in DOMAIN input_data |->
        [ input_data[c] EXCEPT
            !.filepath = PathToJson(@),
            !.images = [ i \in DOMAIN input_data[c].images |->
                           ImageToJson([input_data[c].images[i] EXCEPT
                                            !.alt_text_replaced = FALSE]) ] ] ]

\* lines 26-31: the text written by write_backup_to_json_file
write_backup_to_json_file(input_data) ==
    [ c \in DOMAIN input_data |->
        [ input_data[c] EXCEPT
            !.filepath = PathToJson(@),
            !.images = [ i \in DOMAIN input_data[c].images |->
                           ImageToJson(input_data[c].images[i]) ] ] ]

json_load_only(file) == file

\* lines 34-40
read_backup_from_json_file(file) ==
    [ c \in DOMAIN file |->
        [ file[c] EXCEPT
            !.filepath = PathFromJson(@),
            !.images = [ i \in DOMAIN file[c].images |->
                           ImageFromJson(file[c].images[i]) ] ] ]

\* the references of the last chapter first
FlatRefsBackwards(chapters, c) ==
    Flatten([ k \in 1..(Len(chapters) + 1 - c) |->
                [ i \in DOMAIN chapters[Len(chapters) + 1 - k].images |->
                    <<Len(chapters) + 1 - k, i>> ] ])

RECURSIVE FlatRefs(_, _)
\* lines 216-220: all_images, as (chapter index, image index) references into
\* all_chapters, from chapter c on
FlatRefs(chapters, c) ==
    IF c > Len(chapters) THEN <<>>
    ELSE [ i \in DOMAIN chapters[c].images |-> <<c, i>> ] \o FlatRefs(chapters, c + 1)

all_images(chapters) == FlatRefs(chapters, 1)

ImageAt(chapters, ref) == chapters[ref[1]].images[ref[2]]

CR == "\r"
NL == "\n"

\* csv.writer, QUOTE_MINIMAL: a field is quoted when it holds the delimiter,
\* the quote character or a character of the line terminator
NeedsQuote(field) == \E k \in DOMAIN field : field[k] \in { ",", QT, CR, NL }

\* csv.writer: a field as written, quotes doubled inside a quoted field
csv_field(field) ==
    IF NeedsQuote(field) THEN <<QT>> \o str_replace(field, <<QT>>, <<QT, QT>>) \o <<QT>>
    ELSE field

\* csv.writer.writerow on a two-field row, with the line terminator \r\n
csv_row(row) == csv_field(row[1]) \o <<",">> \o csv_field(row[2]) \o <<CR, NL>>

WritesRowForAny(image) == TRUE

\* line 48: if image.generated_alt_text
WritesRowFor(image) == Truthy(image.generated_alt_text)

RECURSIVE ReviewRows(_, _)
\* lines 46-49: the rows for the Images that have generated text, from the k-th on
ReviewRows(images, k) ==
    IF k > Len(images) THEN <<>>
    ELSE (IF WritesRowFor(images[k])
          THEN << <<images[k].image_src, images[k].generated_alt_text>> >>
          ELSE <<>>) \o ReviewRows(images, k + 1)

\* lines 42-52: the text written by write_review_data_to_csv_file
write_review_data_to_csv_file(input_data) ==
    LET rows == ReviewRows(input_data, 1)
    IN Flatten([ k \in DOMAIN rows |-> csv_row(rows[k]) ])

RECURSIVE CsvParse(_, _, _, _, _, _)
\* csv.reader (default dialect, not strict) on the characters of text from
\* the k-th on: the records read, each a sequence of fields.  state is the
\* reader's state, field and fields what it has of the current record.
CsvParse(text, k, state, field, fields, records) ==
    IF k > Len(text)
    THEN (CASE state = "START_RECORD" -> records
            [] state = "EAT_CRNL"     -> Append(records, fields)
            [] OTHER                  -> Append(records, Append(fields, field)))
    ELSE LET c == text[k]
             eol == c \in { CR, NL }
         IN CASE state = "EAT_CRNL" /\ eol ->
                     CsvParse(text, k + 1, "EAT_CRNL", <<>>, fields, records)
              [] state = "EAT_CRNL" /\ ~eol ->
                     CsvParse(text, k, "START_RECORD", <<>>, <<>>,
                              Append(records, fields))
              [] state = "START_RECORD" /\ eol ->
                     CsvParse(text, k + 1, "EAT_CRNL", <<>>, <<>>, records)
              [] state \in { "START_RECORD", "START_FIELD" } /\ ~eol ->
                     (CASE c = QT  -> CsvParse(text, k + 1, "IN_QUOTED_FIELD",
                                               <<>>, fields, records)
                        [] c = "," -> CsvParse(text, k + 1, "START_FIELD", <<>>,
                                               Append(fields, <<>>), records)
                        [] OTHER   -> CsvParse(text, k + 1, "IN_FIELD", <<c>>,
                                               fields, records))
              [] state = "START_FIELD" /\ eol ->
                     CsvParse(text, k + 1, "EAT_CRNL", <<>>,
                              Append(fields, <<>>), records)
              [] state = "IN_FIELD" ->
                     (CASE eol     -> CsvParse(text, k + 1, "EAT_CRNL", <<>>,
                                               Append(fields, field), records)
                        [] c = "," -> CsvParse(text, k + 1, "START_FIELD", <<>>,
                                               Append(fields, field), records)
                        [] OTHER   -> CsvParse(text, k + 1, "IN_FIELD",
                                               Append(field, c), fields, records))
              [] state = "IN_QUOTED_FIELD" ->
                     (CASE c = QT -> CsvParse(text, k + 1, "QUOTE_IN_QUOTED_FIELD",
                                              field, fields, records)
                        [] OTHER  -> CsvParse(text, k + 1, "IN_QUOTED_FIELD",
                                              Append(field, c), fields, records))
              [] state = "QUOTE_IN_QUOTED_FIELD" ->
                     (CASE c = QT  -> CsvParse(text, k + 1, "IN_QUOTED_FIELD",
                                               Append(field, QT), fields, records)
                        [] c = "," -> CsvParse(text, k + 1, "START_FIELD", <<>>,
                                               Append(fields, field), records)
                        [] eol     -> CsvParse(text, k + 1, "EAT_CRNL", <<>>,
                                               Append(fields, field), records)
                        [] OTHER   -> CsvParse(text, k + 1, "IN_FIELD",
                                               Append(field, c), fields, records))

\* csv.reader over a whole text
csv_reader(text) == CsvParse(text, 1, "START_RECORD", <<>>, <<>>, <<>>)

\* line 80: next(csv.reader([raw_line])), the empty list for an empty line
csv_row_of_line(raw_line) ==
    IF csv_reader(raw_line) = <<>> THEN <<>> ELSE csv_reader(raw_line)[1]

RECURSIVE SplitLines(_, _)
\* line 65: the lines of a file opened with newline='': ended by \n, \r or
\* \r\n, which they keep; cur is the line being read
SplitLines(text, cur) ==
    IF text = <<>> THEN (IF cur = <<>> THEN <<>> ELSE <<cur>>)
    ELSE IF Head(text) = NL THEN <<Append(cur, NL)>> \o SplitLines(Tail(text), <<>>)
    ELSE IF Head(text) = CR /\ Len(text) > 1 /\ text[2] = NL
    THEN <<cur \o <<CR, NL>>>> \o SplitLines(SubSeq(text, 3, Len(text)), <<>>)
    ELSE IF Head(text) = CR THEN <<Append(cur, CR)>> \o SplitLines(Tail(text), <<>>)
    ELSE SplitLines(Tail(text), Append(cur, Head(text)))

RECURSIVE RStripNL(_)
\* line 66: line.rstrip('\n')
RStripNL(s) ==
    IF s # <<>> /\ s[Len(s)] = NL THEN RStripNL(SubSeq(s, 1, Len(s) - 1)) ELSE s

\* line 70, the lookbehind (?<=^|,[ ]*): position k follows the start of the
\* line or a comma and spaces
AfterCommaOrStart(line, k) ==
    \/ k = 1
    \/ \E j \in 1..(k - 1) :
           line[j] = "," /\ \A i \in (j + 1)..(k - 1) : line[i] = " "

\* line 70, the lookahead (?=$|,[ ]*|\n|\r) after position k
BeforeCommaOrEnd(line, k) ==
    \/ k = Len(line)
    \/ line[k + 1] \in { ",", CR, NL }

\* the closing quote the lazy "(.*?)" finds for the quote at k, 0 if none
ClosingQuote(line, k) ==
    LET ends == { q \in (k + 1)..Len(line) :
                      line[q] = QT /\ BeforeCommaOrEnd(line, q) }
    IN IF ends = {} THEN 0 ELSE CHOOSE q \in ends : \A j \in ends : q <= j

RECURSIVE quoted_fields(_, _)
\* lines 70-71: regex.findall(quoted_field_pattern, raw_line), from position k
quoted_fields(line, k) ==
    IF k > Len(line) THEN <<>>
    ELSE IF line[k] = QT /\ AfterCommaOrStart(line, k) /\ ClosingQuote(line, k) > 0
    THEN <<SubSeq(line, k + 1, ClosingQuote(line, k) - 1)>>
             \o quoted_fields(line, ClosingQuote(line, k) + 1)
    ELSE quoted_fields(line, k + 1)

\* lines 74-75: (?<!")"(?!") is found in the field
has_unescaped_quote(field) ==
    \E k \in DOMAIN field :
        /\ field[k] = QT
        /\ (k = 1 \/ field[k - 1] # QT)
        /\ (k = Len(field) \/ field[k + 1] # QT)

\* lines 68-88: the error of a line, "none" if it has none
line_error(raw_line) ==
    IF \E k \in DOMAIN quoted_fields(raw_line, 1) :
           has_unescaped_quote(quoted_fields(raw_line, 1)[k])
    THEN "unescaped internal quotes"
    ELSE IF Len(csv_row_of_line(raw_line)) # 2 THEN "Expected 2 fields"
    ELSE "none"

FirstErrorOnly(raw_lines) ==
    LET bad == { k \in DOMAIN raw_lines : line_error(raw_lines[k]) # "none" }
    IN { k \in bad : \A j \in bad : k <= j }

\* lines 87-88: the numbers of the lines whose error is appended to errors
ErrorLines(raw_lines) ==
    { k \in DOMAIN raw_lines : line_error(raw_lines[k]) # "none" }

\* lines 54-93: the pairs returned, or the raise of the one ValueError that
\* holds the errors of the lines in errors
read_review_data_from_csv_file(file) ==
    LET raw_lines == [ k \in DOMAIN SplitLines(file, <<>>) |->
                         RStripNL(SplitLines(file, <<>>)[k]) ]
        errors == ErrorLines(raw_lines)
        good == SelectSeq(raw_lines, LAMBDA l : line_error(l) = "none")
    IN IF errors # {}
       THEN [rows |-> <<>>, raised |-> TRUE, errors |-> errors]
       ELSE [rows |-> [ k \in DOMAIN good |->
                          <<Strip(csv_row_of_line(good[k])[1]),
                            html_escape(Strip(csv_row_of_line(good[k])[2]))>> ],
             raised |-> FALSE, errors |-> {}]

\* process_repo_files.read_atlas_json, lines 40-52: the chapter paths, or None
\* for an unreadable manifest or one without files
read_atlas_json(atlas) ==
    IF atlas = NoFile \/ atlas = <<>> THEN None ELSE atlas

\* lines 122, 154, 252: input(...).strip().lower()
strip_lower(answer) ==
    CASE answer = " Yes " -> "yes"
      [] OTHER -> answer

IsYes(answer) == strip_lower(answer) \in { "y", "yes" }

-----------------------------------------------------------------------------
(* main.main *)

NoArg == "none"

\* line 183, 191: chapter files whose name contains a name of files_to_skip
IsSkippedFile(path) == path = "cover.html"

RECURSIVE ReadChapters(_, _, _)
\* lines 190-201: a Chapter for every file of chapter_filepaths not skipped,
\* from the k-th on; files[k] is the text of the file chapter_filepaths[k]
ReadChapters(paths, files, k) ==
    IF k > Len(paths) THEN <<>>
    ELSE (IF IsSkippedFile(paths[k]) THEN <<>>
          ELSE <<Chapter(paths[k], files[k], <<>>)>>) \o ReadChapters(paths, files, k + 1)

RECURSIVE CollectAll(_, _, _, _, _)
\* lines 204-214: collect the images of every chapter, from the c-th on
CollectAll(chapters, c, skip_existing_alt_text, filter_arg, asciidoctor) ==
    IF c > Len(chapters)
    THEN [chapters |-> chapters, raised |-> FALSE, error |-> "none"]
    ELSE LET got == collect_image_data_from_chapter_file(
                        chapters[c].content, chapters[c].filepath,
                        skip_existing_alt_text, filter_arg,
                        chapters[c].chapter_format, asciidoctor)
         IN IF got.raised
            THEN [chapters |-> chapters, raised |-> TRUE, error |-> got.error]
            ELSE CollectAll([chapters EXCEPT ![c].images = got.images], c + 1,
                            skip_existing_alt_text, filter_arg, asciidoctor)

\* line 177: the name of a chapter file ends with .asciidoc or .adoc
HasAsciidocName(path) == \E k \in 1..4 : path = FilePath(k, ".adoc")

\* process_repo_files.check_asciidoctor_installed, lines 55-79: it raises
\* AsciidoctorMissingError
check_asciidoctor_installed(asciidoctor) == asciidoctor = "missing"

\* line 239: image.generated_alt_text = new_alt_text
SetGenerated(chapters, ref, text) ==
    [chapters EXCEPT ![ref[1]].images[ref[2]].generated_alt_text = text]

\* ---- what a run can find ----

Doc0 == <<"a">>                                                \* no image
Doc1 == MkTag(<<"x">>, <<>>)                                   \* one image, no alt
Doc2 == MkTag(<<"x">>, <<"a">>) \o MkTag(<<"y">>, <<>>)        \* alt, and no alt
Adoc1 == MkMacro(<<"x">>, <<"a">>) \o <<NL>>                   \* asciidoc, one image
\* chapter files: their content and the suffix of their name
Docs == { [content |-> c, suffix |-> ".html"] : c \in { Doc0, Doc1, Doc2 } }
AsciidocDocs == { [content |-> Adoc1, suffix |-> x] : x \in { ".adoc", ".asc" } }
Projects == SeqsUpTo(Docs, MaxChapters) \ { <<>> }
\* projects with asciidoc chapters too
MaxFaultChapters == 1
FaultProjects == SeqsUpTo(Docs \cup AsciidocDocs, MaxFaultChapters) \ { <<>> }

ProjectPaths(project) == [ k \in DOMAIN project |-> FilePath(k, project[k].suffix) ]
ProjectFiles(project) == [ k \in DOMAIN project |-> project[k].content ]
HasAsciidoc(project) == \E k \in DOMAIN project : project[k].suffix # ".html"

Answers == { "y", " Yes ", "n", "" }
\* raw texts the generation service returns
GenOutputs == { <<"c">> }
\* the text of an earlier run found in a snapshot
OldText == <<"o">>
\* filter files, as their lines: one that names x between a comment and a blank
\* line, and one with a comment and blank lines only
FilterFileX == << <<"#", "y">>, <<" ", "x", " ">>, <<>> >>
FilterFileNoEntry == << <<"#", "x">>, <<" ">> >>
FilterFiles == { FilterFileX, FilterFileNoEntry }
\* review files: a row for an image of the project, or for none of its images
CsvFiles == { <<"x", ",", "c", NL>>, <<"z", ",", "c", NL>> }

ArgSets ==
    [ do_not_replace_existing_alt_text : BOOLEAN,
      image_file_filter        : { NoArg, "missing.txt", "filter.txt" },
      load_data_from_json      : { NoArg, "backup.json" },
      update_alt_text_from_csv : { NoArg, "missing.csv", "review.csv" } ]

RECURSIVE WithOldText(_, _, _)
\* all_chapters of an earlier run interrupted after k generations
WithOldText(chapters, refs, k) ==
    IF k = 0 THEN chapters
    ELSE WithOldText(SetGenerated(chapters, refs[k], OldText), refs, k - 1)

\* the snapshots an earlier run on the project can have left
Snapshots(project, a) ==
    LET chs == CollectAll(ReadChapters(ProjectPaths(project),
                                       ProjectFiles(project), 1), 1,
                          a.do_not_replace_existing_alt_text, None, "ok").chapters
    IN { write_backup_to_json_file(WithOldText(chs, all_images(chs), k)) :
             k \in 0..Len(all_images(chs)) }

\* the state at the start of main, for a project of the given set; with
\* faults, the manifest can be unusable and the asciidoctor executable can be
\* failing or missing
InitMainOver(projects, faults) ==
    /\ \E project \in projects : \E a \in ArgSets :
        /\ args = a
        /\ disk = ProjectFiles(project)
        /\ \E snap \in (IF a.load_data_from_json = NoArg THEN { NoFile }
                        ELSE Snapshots(project, a)) :
           \E csv \in (IF a.update_alt_text_from_csv = "review.csv" THEN CsvFiles
                       ELSE { NoFile }) :
           \E filter \in (IF a.image_file_filter = "filter.txt" THEN FilterFiles
                          ELSE { NoFile }) :
           \E atlas \in { ProjectPaths(project) }
                         \cup (IF faults THEN { NoFile } ELSE {}) :
           \E asciidoctor \in (IF faults /\ HasAsciidoc(project)
                               THEN { "ok", "error", "missing" } ELSE { "ok" }) :
               env = [ atlas    |-> atlas,
                       asciidoctor |-> asciidoctor,
                       disk     |-> ProjectFiles(project),
                       snapshot |-> snap,
                       csv      |-> csv,
                       filter   |-> filter ]
    /\ pc = "confirm1"
    /\ status = "running"
    /\ answers = [ first |-> "unasked", filter |-> "unasked", second |-> "unasked" ]
    /\ chapter_filepaths = None
    /\ img_filename_filter_list = None
    /\ all_chapters = <<>>
    /\ gen_i = 1
    /\ rep_i = 1
    /\ backup_file = <<>>
    /\ review_file = NoFile
    /\ gen_calls = <<>>
    /\ gen_pending = FALSE
    /\ log = <<>>
    /\ ReplIdle /\ MergeIdle /\ CallIdle

InitMain == InitMainOver(Projects, FALSE)

InitFaults == InitMainOver(FaultProjects, TRUE)

Running(at) == status = "running" /\ pc = at

\* lines 148-152: the stripped lines of the filter file that are not empty
\* and do not start with #
read_filter_file(file) ==
    SelectSeq([ k \in DOMAIN file |-> Strip(file[k]) ],
              LAMBDA line : line # <<>> /\ Head(line) # "#")

\* lines 122-124
Confirm1 ==
    /\ Running("confirm1")
    /\ \E ans \in Answers :
        /\ answers' = [answers EXCEPT !.first = ans]
        /\ IF IsYes(ans)
           THEN pc' = "read_atlas" /\ status' = status
           ELSE pc' = pc /\ status' = "exited"
    /\ UNCHANGED <<env, args, chapter_filepaths, img_filename_filter_list,
                   all_chapters, gen_i, rep_i, disk, backup_file, review_file,
                   gen_calls, gen_pending, log>>
    /\ UNCHANGED <<replVars, mergeVars, callVars>>

\* lines 126-137
ReadAtlas ==
    /\ Running("read_atlas")
    /\ chapter_filepaths' = read_atlas_json(env.atlas)
    /\ pc' = "filter"
    /\ UNCHANGED <<env, args, status, answers, img_filename_filter_list,
                   all_chapters, gen_i, rep_i, disk, backup_file, review_file,
                   gen_calls, gen_pending, log>>
    /\ UNCHANGED <<replVars, mergeVars, callVars>>

\* lines 139-156
HandleFilter ==
    /\ Running("filter")
    /\ IF args.image_file_filter # NoArg /\ args.load_data_from_json = NoArg
       THEN IF env.filter = NoFile
            THEN \* line 147: raise ValueError
                 /\ status' = "ValueError"
                 /\ UNCHANGED <<pc, answers, img_filename_filter_list>>
            ELSE /\ img_filename_filter_list' = read_filter_file(env.filter)
                 /\ \E ans \in Answers :
                     /\ answers' = [answers EXCEPT !.filter = ans]
                     /\ IF IsYes(ans)
                        THEN pc' = "csv_check" /\ status' = status
                        ELSE pc' = pc /\ status' = "exited"
       ELSE /\ pc' = "csv_check"
            /\ UNCHANGED <<status, answers, img_filename_filter_list>>
    /\ UNCHANGED <<env, args, chapter_filepaths, all_chapters, gen_i, rep_i, disk,
                   backup_file, review_file, gen_calls, gen_pending, log>>
    /\ UNCHANGED <<replVars, mergeVars, callVars>>

\* lines 158-166
HandleCsvOption ==
    /\ Running("csv_check")
    /\ IF args.update_alt_text_from_csv # NoArg /\ env.csv = NoFile
       THEN status' = "ValueError" /\ pc' = pc
       ELSE status' = status /\ pc' = "load"
    /\ UNCHANGED <<env, args, answers, chapter_filepaths, img_filename_filter_list,
                   all_chapters, gen_i, rep_i, disk, backup_file, review_file,
                   gen_calls, gen_pending, log>>
    /\ UNCHANGED <<replVars, mergeVars, callVars>>

AfterLoad == IF args.update_alt_text_from_csv # NoArg THEN "merge" ELSE "generate"

\* lines 169-171
LoadFromJson ==
    /\ Running("load")
    /\ args.load_data_from_json # NoArg
    /\ all_chapters' = read_backup_from_json_file(env.snapshot)
    /\ pc' = AfterLoad
    /\ UNCHANGED <<env, args, status, answers, chapter_filepaths,
                   img_filename_filter_list, gen_i, rep_i, disk, backup_file,
                   review_file, gen_calls, gen_pending, log>>
    /\ UNCHANGED <<replVars, mergeVars, callVars>>

\* lines 172-214
CollectRepo ==
    /\ Running("load")
    /\ args.load_data_from_json = NoArg
    /\ IF chapter_filepaths = None
       THEN \* line 177: iterating None raises TypeError
            status' = "TypeError" /\ UNCHANGED <<pc, all_chapters, log>>
       ELSE IF /\ \E k \in DOMAIN chapter_filepaths :
                      HasAsciidocName(chapter_filepaths[k])
               /\ check_asciidoctor_installed(env.asciidoctor)
       THEN \* line 180
            status' = "AsciidoctorMissingError" /\ UNCHANGED <<pc, all_chapters, log>>
       ELSE LET got == CollectAll(
                           ReadChapters(chapter_filepaths, disk, 1), 1,
                           args.do_not_replace_existing_alt_text,
                           IF Truthy(img_filename_filter_list)
                           THEN img_filename_filter_list ELSE None,
                           env.asciidoctor)
            IN /\ all_chapters' = got.chapters
               /\ log' = Append(log, "read")
               /\ IF got.raised
                  THEN status' = got.error /\ pc' = pc
                  ELSE status' = status /\ pc' = AfterLoad
    /\ UNCHANGED <<env, args, answers, chapter_filepaths, img_filename_filter_list,
                   gen_i, rep_i, disk, backup_file, review_file, gen_calls,
                   gen_pending>>
    /\ UNCHANGED <<replVars, mergeVars, callVars>>

NextImage == ImageAt(all_chapters, all_images(all_chapters)[gen_i])

\* lines 230-231, 241-242: an Image that has generated text is passed over
GenSkip ==
    /\ Running("generate")
    /\ gen_i <= Len(all_images(all_chapters))
    /\ Truthy(NextImage.generated_alt_text)
    /\ gen_i' = gen_i + 1
    /\ UNCHANGED <<env, args, pc, status, answers, chapter_filepaths,
                   img_filename_filter_list, all_chapters, rep_i, disk,
                   backup_file, review_file, gen_calls, gen_pending, log>>
    /\ UNCHANGED <<replVars, mergeVars, callVars>>

\* lines 231-238: the call to generate_alt_text is made
GenCall ==
    /\ Running("generate")
    /\ gen_i <= Len(all_images(all_chapters))
    /\ ~Truthy(NextImage.generated_alt_text)
    /\ ~gen_pending
    /\ gen_pending' = TRUE
    /\ gen_calls' = Append(gen_calls, gen_i)
    /\ UNCHANGED <<env, args, pc, status, answers, chapter_filepaths,
                   img_filename_filter_list, all_chapters, gen_i, rep_i, disk,
                   backup_file, review_file, log>>
    /\ UNCHANGED <<replVars, mergeVars, callVars>>

\* generate_alt_text.py line 81 and main.py lines 238-239: the call returns
GenReturn ==
    /\ Running("generate")
    /\ gen_pending
    /\ \E out \in GenOutputs :
        all_chapters' = SetGenerated(all_chapters, all_images(all_chapters)[gen_i],
                                     html_escape(out))
    /\ gen_pending' = FALSE
    /\ pc' = "gen_backup"
    /\ UNCHANGED <<env, args, status, answers, chapter_filepaths,
                   img_filename_filter_list, gen_i, rep_i, disk, backup_file,
                   review_file, gen_calls, log>>
    /\ UNCHANGED <<replVars, mergeVars, callVars>>

\* generate_alt_text.py lines 76-79: the service call raises
GenFail ==
    /\ Running("generate")
    /\ gen_pending
    /\ status' = "GenerationError"
    /\ UNCHANGED <<env, args, pc, answers, chapter_filepaths,
                   img_filename_filter_list, all_chapters, gen_i, rep_i, disk,
                   backup_file, review_file, gen_calls, gen_pending, log>>
    /\ UNCHANGED <<replVars, mergeVars, callVars>>

\* the backup as it would be if written before the text is assigned
StaleBackup(input_data) ==
    write_backup_to_json_file(
        SetGenerated(input_data, all_images(input_data)[gen_i], None))

\* what line 240 leaves in the backup file
BackupAfterGeneration(input_data) == write_backup_to_json_file(input_data)

\* line 240
GenBackup ==
    /\ Running("gen_backup")
    /\ backup_file' = <<BackupAfterGeneration(all_chapters)>>
    /\ log' = Append(log, "backup")
    /\ gen_i' = gen_i + 1
    /\ pc' = "generate"
    /\ UNCHANGED <<env, args, status, answers, chapter_filepaths,
                   img_filename_filter_list, all_chapters, rep_i, disk,
                   review_file, gen_calls, gen_pending>>
    /\ UNCHANGED <<replVars, mergeVars, callVars>>

\* line 230: the loop ends
GenDone ==
    /\ Running("generate")
    /\ gen_i > Len(all_images(all_chapters))
    /\ pc' = "review"
    /\ UNCHANGED <<env, args, status, answers, chapter_filepaths,
                   img_filename_filter_list, all_chapters, gen_i, rep_i, disk,
                   backup_file, review_file, gen_calls, gen_pending, log>>
    /\ UNCHANGED <<replVars, mergeVars, callVars>>

\* lines 244-247
MergeCsv ==
    /\ Running("merge")
    /\ LET got == read_review_data_from_csv_file(env.csv)
       IN IF got.raised
          THEN status' = "ValueError" /\ UNCHANGED <<pc, all_chapters>>
          ELSE /\ all_chapters' = merge_review_data_with_repo_data(got.rows, all_chapters)
               /\ pc' = "review"
               /\ status' = status
    /\ UNCHANGED <<env, args, answers, chapter_filepaths, img_filename_filter_list,
                   gen_i, rep_i, disk, backup_file, review_file, gen_calls,
                   gen_pending, log>>
    /\ UNCHANGED <<replVars, mergeVars, callVars>>

\* lines 249-250
WriteReview ==
    /\ Running("review")
    /\ review_file' = write_review_data_to_csv_file(
                        [ k \in DOMAIN all_images(all_chapters) |->
                            ImageAt(all_chapters, all_images(all_chapters)[k]) ])
    /\ log' = Append(log, "review")
    /\ pc' = "confirm2"
    /\ UNCHANGED <<env, args, status, answers, chapter_filepaths,
                   img_filename_filter_list, all_chapters, gen_i, rep_i, disk,
                   backup_file, gen_calls, gen_pending>>
    /\ UNCHANGED <<replVars, mergeVars, callVars>>

ProceedAnyway(answer) == TRUE

\* line 252: the answer lets the run proceed to the replacements
Proceeds(answer) == IsYes(answer)

\* lines 252-254
Confirm2 ==
    /\ Running("confirm2")
    /\ \E ans \in Answers :
        /\ answers' = [answers EXCEPT !.second = ans]
        /\ IF Proceeds(ans)
           THEN pc' = "replace" /\ status' = status
           ELSE pc' = pc /\ status' = "exited"
    /\ UNCHANGED <<env, args, chapter_filepaths, img_filename_filter_list,
                   all_chapters, gen_i, rep_i, disk, backup_file, review_file,
                   gen_calls, gen_pending, log>>
    /\ UNCHANGED <<replVars, mergeVars, callVars>>

\* the index on disk of the file at a chapter's filepath
FileIndex(path) ==
    CHOOSE k \in 1..4 : \E suffix \in { ".html", ".adoc", ".asc" } : FilePath(k, suffix) = path

SkipsNoChapter(chapter) == FALSE

\* lines 258-259: if not chapter.images: continue
SkipsChapter(chapter) == chapter.images = <<>>

\* lines 257-271: one chapter of the replacement loop
ReplaceChapter ==
    /\ Running("replace")
    /\ rep_i <= Len(all_chapters)
    /\ IF SkipsChapter(all_chapters[rep_i])
       THEN \* lines 258-259
            /\ rep_i' = rep_i + 1
            /\ UNCHANGED <<status, all_chapters, disk, log>>
       ELSE LET res == replace_alt_text_in_chapter_content(
                           all_chapters[rep_i].content,
                           all_chapters[rep_i].images,
                           ~args.do_not_replace_existing_alt_text)
            IN /\ all_chapters' = [all_chapters EXCEPT ![rep_i].images = res.images]
               /\ IF res.raised
                  THEN /\ status' = "TypeError"
                       /\ UNCHANGED <<rep_i, disk, log>>
                  ELSE /\ disk' = [disk EXCEPT
                                     ![FileIndex(all_chapters[rep_i].filepath)] = res.content]
                       /\ log' = Append(log, all_chapters[rep_i].filepath)
                       /\ rep_i' = rep_i + 1
                       /\ status' = status
    /\ UNCHANGED <<env, args, pc, answers, chapter_filepaths,
                   img_filename_filter_list, gen_i, backup_file, review_file,
                   gen_calls, gen_pending>>
    /\ UNCHANGED <<replVars, mergeVars, callVars>>

\* lines 273-276
FinalBackup ==
    /\ Running("replace")
    /\ rep_i > Len(all_chapters)
    /\ backup_file' = <<write_backup_to_json_file(all_chapters)>>
    /\ log' = Append(log, "backup")
    /\ status' = "done"
    /\ UNCHANGED <<env, args, pc, answers, chapter_filepaths,
                   img_filename_filter_list, all_chapters, gen_i, rep_i, disk,
                   review_file, gen_calls, gen_pending>>
    /\ UNCHANGED <<replVars, mergeVars, callVars>>

\* the process is stopped from outside (an interrupt signal), at any point
Interrupt ==
    /\ status = "running"
    /\ status' = "interrupted"
    /\ UNCHANGED <<env, args, pc, answers, chapter_filepaths,
                   img_filename_filter_list, all_chapters, gen_i, rep_i, disk,
                   backup_file, review_file, gen_calls, gen_pending, log>>
    /\ UNCHANGED <<replVars, mergeVars, callVars>>

Next ==
    \/ Confirm1 \/ ReadAtlas \/ HandleFilter \/ HandleCsvOption
    \/ LoadFromJson \/ CollectRepo
    \/ GenSkip \/ GenCall \/ GenReturn \/ GenFail \/ GenBackup \/ GenDone
    \/ MergeCsv \/ WriteReview \/ Confirm2 \/ ReplaceChapter \/ FinalBackup
    \/ Interrupt

Init == InitMain

Spec == Init /\ [][Next]_vars

SpecFaults == InitFaults /\ [][Next]_vars

-----------------------------------------------------------------------------
(* Claims about main, checked under Spec *)

LoadMode == args.load_data_from_json # NoArg
CsvMode == args.update_alt_text_from_csv # NoArg

\* all_chapters is loaded or collected
Loaded == pc \notin { "confirm1", "read_atlas", "filter", "csv_check", "load" }

\* the generation pass is over
Generated == pc \in { "review", "confirm2", "replace" }

Mem(k) == ImageAt(all_chapters, all_images(all_chapters)[k])

\* the generated text the snapshot given to the run holds for the k-th Image
LoadedText(k) ==
    IF LoadMode
    THEN ImageAt(read_backup_from_json_file(env.snapshot),
                 all_images(all_chapters)[k]).generated_alt_text
    ELSE None

ImageIxs == DOMAIN all_images(all_chapters)

\* the chapter files written so far, as positions of log
ChapterWrites == { k \in DOMAIN log : log[k] \notin { "backup", "review", "read" } }

Written(path) == \E k \in ChapterWrites : log[k] = path

\* C7 (generation keyed by text): a call in flight is for an Image without
\* generated text, and no Image is sent twice.
C7_CalledOnlyWithoutText ==
    /\ gen_pending => ~Truthy(Mem(gen_i).generated_alt_text)
    /\ \A j, k \in DOMAIN gen_calls : gen_calls[j] = gen_calls[k] => j = k

\* C7 (loaded text kept): an Image loaded with text from the snapshot is never
\* sent to generation and, in a run that generates, keeps that text.
C7_LoadedTextKept ==
    (Loaded /\ LoadMode) =>
        \A k \in ImageIxs :
            Truthy(LoadedText(k)) =>
                /\ \A j \in DOMAIN gen_calls : gen_calls[j] # k
                /\ ~CsvMode => Mem(k).generated_alt_text = LoadedText(k)

\* C7 (the rest generated): once the pass is over every Image that had no text
\* in the snapshot has been sent to generation and has text.
C7_OthersGenerated ==
    (Generated /\ ~CsvMode) =>
        \A k \in ImageIxs :
            ~Truthy(LoadedText(k)) =>
                /\ \E j \in DOMAIN gen_calls : gen_calls[j] = k
                /\ Truthy(Mem(k).generated_alt_text)

\* C7 (loaded text written): a chapter file written by a run that generates
\* holds, for each of its Images loaded with text, the Image's tag with that
\* text as its alt value.
C7_LoadedTextWritten ==
    (LoadMode /\ ~CsvMode) =>
        \A k \in ImageIxs :
            (Truthy(LoadedText(k)) /\ Written(Mem(k).chapter_filepath)) =>
                Count(disk[FileIndex(Mem(k).chapter_filepath)],
                      MkTag(Mem(k).image_src, LoadedText(k))) > 0

\* C7: resumption: generation is called for an Image only if it has no
\* generated text at that moment; an Image loaded from a snapshot with text is
\* never sent again, keeps the text, and the text is what is written into the
\* chapter; the Images without text in the snapshot are generated.
C7_Resumption ==
    /\ C7_CalledOnlyWithoutText
    /\ C7_LoadedTextKept
    /\ C7_OthersGenerated
    /\ C7_LoadedTextWritten

\* the generation pass, running or stopped in it
InGenerationPass == pc \in { "generate", "gen_backup" }

\* the generated text the latest snapshot holds for the k-th Image: the one
\* written by this run if any, else the one the run was given
SnapshotText(k) ==
    IF backup_file # <<>>
    THEN ImageAt(read_backup_from_json_file(backup_file[1]),
                 all_images(all_chapters)[k]).generated_alt_text
    ELSE LoadedText(k)

\* the Images whose generation call returned in an iteration that is over
Completed == { k \in ImageIxs : k < gen_i /\ \E j \in DOMAIN gen_calls : gen_calls[j] = k }

\* C8: at every point of the generation pass, also when the run was
\* interrupted or a generation call failed there, the snapshot has been
\* written once per completed generation and at no other time, it holds the
\* text of every Image generated so far, and memory differs from it at most
\* in the one Image whose text was just returned and is not yet saved.
C8_SnapshotTracksGeneration ==
    InGenerationPass =>
        /\ Cardinality({ j \in DOMAIN log : log[j] = "backup" }) = Cardinality(Completed)
        /\ (backup_file = <<>>) = (Completed = {})
        /\ \A k \in Completed :
               /\ Truthy(SnapshotText(k))
               /\ SnapshotText(k) = Mem(k).generated_alt_text
        /\ \A k \in ImageIxs :
               Mem(k).generated_alt_text # SnapshotText(k) =>
                   /\ k = gen_i
                   /\ pc = "gen_backup"
                   /\ ~Truthy(SnapshotText(k))

\* C8 witness: the run was interrupted with one generated text saved and a
\* second one returned and not yet saved.
C8_Witness ==
    /\ status = "interrupted"
    /\ pc = "gen_backup"
    /\ Completed # {}
    /\ gen_i \notin Completed
    /\ Truthy(Mem(gen_i).generated_alt_text)
    /\ ~Truthy(SnapshotText(gen_i))

Asked(answer) == answer # "unasked"

\* C9: a chapter file is written, or differs from what it was, only if both
\* confirmations were answered yes and after the review file was written; any
\* other answer to either ends the run with every chapter file unchanged.
C9_WritesGated ==
    /\ (ChapterWrites # {} \/ disk # env.disk) =>
           /\ IsYes(answers.first)
           /\ IsYes(answers.second)
           /\ review_file # NoFile
           /\ \E j \in DOMAIN log :
                  log[j] = "review" /\ \A k \in ChapterWrites : j < k
    /\ \A answer \in { answers.first, answers.second } :
           (Asked(answer) /\ ~IsYes(answer)) =>
               /\ status = "exited"
               /\ disk = env.disk
               /\ ChapterWrites = {}

\* C9 witness: a run answered yes twice has rewritten a chapter file.
C9_Witness ==
    /\ status = "done"
    /\ IsYes(answers.first) /\ IsYes(answers.second)
    /\ ChapterWrites # {}
    /\ disk # env.disk

\* C9 witness of the refusal: the second confirmation was declined after
\* generation, and the run has exited.
C9_DeclinedWitness ==
    /\ status = "exited"
    /\ answers.second = "n"
    /\ gen_calls # <<>>
    /\ review_file # NoFile

-----------------------------------------------------------------------------
(* SpecCollect: collect_image_data_from_chapter_file called once on a       *)
(* chapter, then text generated for every Image returned and the chapter    *)
(* rewritten by replace_alt_text_in_chapter_content.                         *)

MaxTags == 2        \* image references in a chapter

CalloutSrc == <<"c", "a", "l", "l", "o", "u", "t", "s", "/", "x">>
RemoteSrc == <<"h", ":", "x">>          \* a URL or data URI: it has a scheme
RootSrc == <<"/", "x">>                 \* a root-absolute path
MissingSrc == <<"z">>                   \* a local path with no file

\* image references as (src, alt): every kind of src without alt text, and
\* some with whitespace and with text as alt
Refs ==
    { <<src, <<>>>> : src \in { <<"x">>, <<"y">>, <<"i", "/", "x">>, CalloutSrc,
                                RemoteSrc, RootSrc, MissingSrc, <<>> } }
    \cup { << <<"x">>, <<" ">> >>, << <<"x">>, <<"a">> >>,
           << <<"y">>, <<"a">> >>, << CalloutSrc, <<"a">> >> }

\* the literal text of a reference in a chapter of the format
RefText(ref, chapter_format) ==
    IF chapter_format = "html" THEN MkTag(ref[1], ref[2])
    ELSE MkMacro(ref[1], ref[2]) \o <<"\n">>

\* a chapter with the references; lead is the text that precedes each
\* reference on its line
ChapterText(refs, chapter_format, lead) ==
    Flatten([ k \in DOMAIN refs |-> lead \o RefText(refs[k], chapter_format) ])

CollectFilters == { None, << <<"x">> >>, << <<"i", "/", "x">> >> }

NotCalled == [images |-> <<>>, raised |-> FALSE, error |-> "none"]

InitCollect ==
    /\ \E refs \in SeqsUpTo(Refs, MaxTags) :
       \E chapter_format \in { "html", "asciidoc" } :
       \E asciidoctor \in (IF chapter_format = "html" THEN { "ok" }
                           ELSE { "ok", "error", "missing" }) :
       \E lead \in (IF chapter_format = "html" \/ asciidoctor # "ok"
                     THEN { <<>> } ELSE { <<>>, <<"a">> }) :
       \E skip \in BOOLEAN : \E filter \in CollectFilters :
           /\ f_in = [ refs |-> refs,
                       lead |-> lead,
                       chapter_text_content |-> ChapterText(refs, chapter_format, lead),
                       chapter_format |-> chapter_format,
                       asciidoctor |-> asciidoctor,
                       skip_existing_alt_text |-> skip,
                       img_filename_filter_list |-> filter ]
           /\ f_text = ChapterText(refs, chapter_format, lead)
    /\ f_out = NotCalled
    /\ f_pc = "start"
    /\ ReplIdle /\ MergeIdle /\ MainIdle

CollectCall ==
    /\ f_pc = "start"
    /\ f_out' = collect_image_data_from_chapter_file(
                    f_in.chapter_text_content, ChapterPath(1),
                    f_in.skip_existing_alt_text, f_in.img_filename_filter_list,
                    f_in.chapter_format, f_in.asciidoctor)
    /\ f_pc' = "collected"
    /\ UNCHANGED <<f_in, f_text>>
    /\ UNCHANGED <<replVars, mergeVars, mainVars>>

\* main lines 239 and 261-266 on the Images returned
RewriteCall ==
    /\ f_pc = "collected"
    /\ ~f_out.raised
    /\ LET images == [ k \in DOMAIN f_out.images |->
                         [f_out.images[k] EXCEPT !.generated_alt_text = <<"g">>] ]
           res == replace_alt_text_in_chapter_content(
                      f_text, images, ~f_in.skip_existing_alt_text)
       IN f_text' = IF res.raised THEN f_text ELSE res.content
    /\ f_pc' = "rewritten"
    /\ UNCHANGED <<f_in, f_out>>
    /\ UNCHANGED <<replVars, mergeVars, mainVars>>

NextCollect == CollectCall \/ RewriteCall

SpecCollect == InitCollect /\ [][NextCollect]_vars

-----------------------------------------------------------------------------
(* Claims about the scanner, checked under SpecCollect *)

Returned == f_pc \in { "collected", "rewritten" } /\ ~f_out.raised

\* the references of the chapter an html parser gives an element with a src
SrcRefs == SelectSeq(f_in.refs, LAMBDA ref : ref[1] # <<>>)

IsLocalFile(src) ==
    /\ src \in ImageFiles
    /\ Head(src) # "/"
    /\ \A k \in DOMAIN src : src[k] # ":"

HasCalloutSegment(src) ==
    \E k \in DOMAIN src :
        k + 8 <= Len(src) /\ SubSeq(src, k, k + 8) = SubSeq(CalloutSrc, 1, 9)

\* the file name of a reference: what follows its last slash
FileName(src) ==
    LET slashes == { k \in DOMAIN src : src[k] = "/" }
    IN IF slashes = {} THEN src
       ELSE SubSeq(src, (CHOOSE k \in slashes : \A j \in slashes : j <= k) + 1, Len(src))

Listed(src) ==
    \/ f_in.img_filename_filter_list = None
    \/ \E j \in DOMAIN f_in.img_filename_filter_list :
           f_in.img_filename_filter_list[j] = FileName(src)

Trimmed(text) == SelectSeq(text, LAMBDA ch : ch # " ")

\* eligible but for the allowlist
EligibleButList(ref) ==
    /\ ~HasCalloutSegment(ref[1])
    /\ IsLocalFile(ref[1])
    /\ f_in.skip_existing_alt_text => Trimmed(ref[2]) = <<>>

ReturnedRefs == [ k \in DOMAIN f_out.images |->
                    <<f_out.images[k].image_src, f_out.images[k].original_alt_text>> ]

\* C11: when an allowlist is passed and the call returns, the Images returned
\* are, in order, the otherwise-eligible references whose file name is in the
\* list, and after the rewrite the chapter holds every reference whose file
\* name is not in the list as many times as before.
C11_AllowlistByFileName ==
    (Returned /\ f_in.img_filename_filter_list # None) =>
        /\ ReturnedRefs =
               SelectSeq(SrcRefs, LAMBDA ref : EligibleButList(ref) /\ Listed(ref[1]))
        /\ \A k \in DOMAIN f_out.images : Listed(f_out.images[k].image_src)
        /\ f_pc = "rewritten" =>
               \A k \in DOMAIN SrcRefs :
                   ~Listed(SrcRefs[k][1]) =>
                       Count(f_text, RefText(SrcRefs[k], f_in.chapter_format))
                           = Count(f_in.chapter_text_content,
                                   RefText(SrcRefs[k], f_in.chapter_format))

\* C11 witness: with the list ("x"), a chapter referencing i/x and y has been
\* scanned and rewritten: i/x, whose file name is x, is returned and y is not.
C11_Witness ==
    /\ f_pc = "rewritten"
    /\ f_in.img_filename_filter_list # None
    /\ f_in.img_filename_filter_list[1] = <<"x">>
    /\ Len(f_out.images) = 1
    /\ f_out.images[1].image_src = <<"i", "/", "x">>
    /\ \E k \in DOMAIN f_in.refs : f_in.refs[k][1] = <<"y">>
    /\ f_text # f_in.chapter_text_content

\* C12: when the call returns, with skip_existing_alt_text the references
\* whose alt is not empty after trimming are excluded and those whose alt is
\* empty or blank are not; without it the alt excludes nothing.
C12_SkipExistingAlt ==
    Returned =>
        /\ f_in.skip_existing_alt_text =>
               \A k \in DOMAIN f_out.images :
                   Trimmed(f_out.images[k].original_alt_text) = <<>>
        /\ ReturnedRefs =
               SelectSeq(SrcRefs,
                         LAMBDA ref : /\ ~HasCalloutSegment(ref[1])
                                      /\ IsLocalFile(ref[1])
                                      /\ Listed(ref[1])
                                      /\ (f_in.skip_existing_alt_text =>
                                              Trimmed(ref[2]) = <<>>))

\* C12 witness: with skip_existing_alt_text, of the references x with a blank
\* alt and x with alt text only the first is returned.
C12_Witness ==
    /\ Returned
    /\ f_in.skip_existing_alt_text
    /\ f_in.refs = << << <<"x">>, <<" ">> >>, << <<"x">>, <<"a">> >> >>
    /\ ReturnedRefs = << << <<"x">>, <<" ">> >> >>

\* C13: no Image returned has an image_src containing callouts/, whatever
\* the format, the allowlist and skip_existing_alt_text.
C13_NoCallouts ==
    \A k \in DOMAIN f_out.images : ~HasCalloutSegment(f_out.images[k].image_src)

\* C13 witness: a call on a chapter that references an existing callout
\* image and another image has returned the other image.
C13_Witness ==
    /\ Returned
    /\ \E k \in DOMAIN f_in.refs : f_in.refs[k][1] = CalloutSrc
    /\ f_out.images # <<>>

\* C14: a reference that does not resolve to an existing local file is
\* skipped without raising and the scan goes on with the remaining
\* references, so every Image returned has an image_filepath.
C14_UnresolvedSkipped ==
    (f_pc \in { "collected", "rewritten" }
        /\ f_in.asciidoctor = "ok"
        /\ \A k \in DOMAIN f_in.refs : f_in.refs[k][1] # <<>>) =>
        /\ ~f_out.raised
        /\ \A k \in DOMAIN f_out.images : f_out.images[k].image_filepath # None
        /\ ReturnedRefs =
               SelectSeq(SrcRefs, LAMBDA ref : EligibleButList(ref) /\ Listed(ref[1]))

\* the literal fragment of a reference in a chapter of the format
RefLiteral(ref, chapter_format) ==
    IF chapter_format = "html" THEN MkTag(ref[1], ref[2]) ELSE MkMacro(ref[1], ref[2])

\* the literal fragments of the chapter that mention src, in document order
LiteralsOf(src) ==
    LET rs == SelectSeq(f_in.refs, LAMBDA ref : ref[1] = src)
    IN [ k \in DOMAIN rs |-> RefLiteral(rs[k], f_in.chapter_format) ]

\* the Images returned for src, in order
ImagesOf(src) == SelectSeq(f_out.images, LAMBDA image : image.image_src = src)

ReturnedSrcs == { f_out.images[k].image_src : k \in DOMAIN f_out.images }

\* C22: when the n references to one src of a chapter yield n Images, the
\* i-th of these Images is bound to the i-th literal fragment that mentions
\* the src, in document order.
C22_DuplicatesInOrder ==
    Returned =>
        \A src \in ReturnedSrcs :
            Len(ImagesOf(src)) = Len(LiteralsOf(src)) =>
                \A i \in DOMAIN ImagesOf(src) :
                    ImagesOf(src)[i].original_img_elem_str = LiteralsOf(src)[i]

\* C23: every Image returned has an original_img_elem_str, and it is a
\* contiguous part of the chapter content passed in, in both formats and
\* wherever the reference is on its line.
C23_LiteralIsSubstring ==
    Returned =>
        \A k \in DOMAIN f_out.images :
            /\ f_out.images[k].original_img_elem_str # None
            /\ Count(f_in.chapter_text_content,
                     f_out.images[k].original_img_elem_str) > 0

\* the part of C23 the scanner keeps: html chapters, and asciidoc chapters
\* whose image macros start their line
C23_LiteralAtLineStart ==
    (Returned /\ f_in.lead = <<>>) =>
        \A k \in DOMAIN f_out.images :
            /\ f_out.images[k].original_img_elem_str # None
            /\ Count(f_in.chapter_text_content,
                     f_out.images[k].original_img_elem_str) > 0

\* the literal map of the call
LiteralMap == original_img_tags_by_src(f_in.chapter_text_content, f_in.chapter_format)

\* the literal fragments the map holds under src, in order
MapEntries(src) ==
    LET es == SelectSeq(LiteralMap.map, LAMBDA e : e[1] = src)
    IN [ k \in DOMAIN es |-> es[k][2] ]

\* the call has built its literal map
MapBuilt == f_pc # "start" /\ f_out.error # "AsciidoctorConversionError"

\* C24: the literal map holds, under each reference string, exactly the
\* literal fragments of the content that mention it, once each and in order
\* of appearance; a tag without a src attribute adds no entry and raises no
\* error.
C24_LiteralMap ==
    MapBuilt =>
        /\ ~LiteralMap.raised
        /\ \A e \in DOMAIN LiteralMap.map :
               \E k \in DOMAIN SrcRefs : SrcRefs[k][1] = LiteralMap.map[e][1]
        /\ \A k \in DOMAIN SrcRefs :
               MapEntries(SrcRefs[k][1]) = LiteralsOf(SrcRefs[k][1])

\* the part of C24 the scan keeps: chapters in which every tag has a src and
\* every macro starts its line
C24_LiteralMapWhenAllHaveSrc ==
    (MapBuilt /\ f_in.lead = <<>> /\ Len(SrcRefs) = Len(f_in.refs)) =>
        /\ ~LiteralMap.raised
        /\ \A e \in DOMAIN LiteralMap.map :
               \E k \in DOMAIN SrcRefs : SrcRefs[k][1] = LiteralMap.map[e][1]
        /\ \A k \in DOMAIN SrcRefs :
               MapEntries(SrcRefs[k][1]) = LiteralsOf(SrcRefs[k][1])

-----------------------------------------------------------------------------
(* SpecWriteReview: write_review_data_to_csv_file called once *)

MaxReviewImages == 2    \* Images handed to write_review_data_to_csv_file

\* generated texts: absent, empty, plain, with a comma, with a line break
ReviewTexts == { None, <<>>, <<"c">>, <<"c", ",", "c">>, <<"c", NL, "c">> }

ReviewImgs ==
    { Img("ch1.html", src, MkTag(src, <<>>), <<>>, text) :
          src \in { <<"x">>, <<"y">> }, text \in ReviewTexts }

InitWriteReview ==
    /\ f_in \in SeqsUpTo(ReviewImgs, MaxReviewImages)
    /\ f_out = <<>>
    /\ f_pc = "start"
    /\ f_text = <<>>
    /\ ReplIdle /\ MergeIdle /\ MainIdle

WriteReviewCall ==
    /\ f_pc = "start"
    /\ f_text' = write_review_data_to_csv_file(f_in)
    /\ f_pc' = "written"
    /\ UNCHANGED <<f_in, f_out>>
    /\ UNCHANGED <<replVars, mergeVars, mainVars>>

NextWriteReview == WriteReviewCall

SpecWriteReview == InitWriteReview /\ [][NextWriteReview]_vars

\* the Images of the input that have generated text
WithText == SelectSeq(f_in, LAMBDA image :
                image.generated_alt_text # None /\ image.generated_alt_text # <<>>)

\* C15: the file written holds, read as CSV, one row of two fields
\* (image_src, generated_alt_text) for each input Image that has generated
\* text, in input order, and nothing else.
C15_OneRowPerGeneratedText ==
    f_pc = "written" =>
        csv_reader(f_text) =
            [ k \in DOMAIN WithText |->
                <<WithText[k].image_src, WithText[k].generated_alt_text>> ]

\* C15 witness: a file written for an Image without text and one whose text
\* holds a comma has the one row of the second.
C15_Witness ==
    /\ f_pc = "written"
    /\ Len(f_in) = 2
    /\ f_in[1].generated_alt_text = None
    /\ f_in[2].generated_alt_text = <<"c", ",", "c">>
    /\ Len(csv_reader(f_text)) = 1

-----------------------------------------------------------------------------
(* SpecReadReview: read_review_data_from_csv_file called once *)

MaxLines == 2       \* lines of a review file

\* lines of a review file, with what is wrong with each and the pair a
\* well-formed one stands for
CsvLines ==
    { [ text |-> <<"x", ",", "c", NL>>, wrong |-> "none",
        pair |-> << <<"x">>, <<"c">> >> ],
      [ text |-> <<"y", ",", "c", CR, NL>>, wrong |-> "none",
        pair |-> << <<"y">>, <<"c">> >> ],
      [ text |-> <<"x", ",", QT, "c", ",", "c", QT, NL>>, wrong |-> "none",
        pair |-> << <<"x">>, <<"c", ",", "c">> >> ],
      [ text |-> <<"x", ",", QT, "c", QT, QT, "c", QT, NL>>, wrong |-> "none",
        pair |-> << <<"x">>, <<"c", "&", "q", "u", "o", "t", ";", "c">> >> ],
      [ text |-> <<" ", "x", " ", ",", " ", "<", " ", NL>>, wrong |-> "none",
        pair |-> << <<"x">>, <<"&", "l", "t", ";">> >> ],
      [ text |-> <<"x", NL>>, wrong |-> "fields", pair |-> <<>> ],
      [ text |-> <<"x", ",", "c", ",", "c", NL>>, wrong |-> "fields", pair |-> <<>> ],
      [ text |-> <<NL>>, wrong |-> "fields", pair |-> <<>> ],
      [ text |-> <<"x", ",", QT, "c", QT, "c", QT, NL>>, wrong |-> "quote",
        pair |-> <<>> ] }

InitReadReview ==
    /\ f_in \in SeqsUpTo(CsvLines, MaxLines)
    /\ f_text = Flatten([ k \in DOMAIN f_in |-> f_in[k].text ])
    /\ f_out = [rows |-> <<>>, raised |-> FALSE, errors |-> {}]
    /\ f_pc = "start"
    /\ ReplIdle /\ MergeIdle /\ MainIdle

ReadReviewCall ==
    /\ f_pc = "start"
    /\ f_out' = read_review_data_from_csv_file(f_text)
    /\ f_pc' = "read"
    /\ UNCHANGED <<f_in, f_text>>
    /\ UNCHANGED <<replVars, mergeVars, mainVars>>

NextReadReview == ReadReviewCall

SpecReadReview == InitReadReview /\ [][NextReadReview]_vars

Malformed == { k \in DOMAIN f_in : f_in[k].wrong # "none" }

C16_ReadWitness ==
    /\ f_pc = "read"
    /\ ~f_out.raised
    /\ Len(f_out.rows) = 2

-----------------------------------------------------------------------------
(* SpecBackup: write_backup_to_json_file, then read_backup_from_json_file   *)
(* on the file written.                                                      *)

MaxBackupChapters == 1  \* Chapters handed to write_backup_to_json_file
MaxBackupImages == 2    \* Images of each

BackupImgs ==
    { [ Img(ChapterPath(1), <<"x">>, MkTag(<<"x">>, <<>>), <<>>, text)
          EXCEPT !.alt_text_replaced = replaced ] :
          text \in { None, <<>>, <<"c">> }, replaced \in BOOLEAN }

BackupChapters ==
    { Chapter(ChapterPath(1), MkTag(<<"x">>, <<>>), images) :
          images \in SeqsUpTo(BackupImgs, MaxBackupImages) }

InitBackup ==
    /\ f_in \in SeqsUpTo(BackupChapters, MaxBackupChapters)
    /\ f_out = <<>>
    /\ f_pc = "start"
    /\ f_text = <<>>
    /\ ReplIdle /\ MergeIdle /\ MainIdle

BackupWriteCall ==
    /\ f_pc = "start"
    /\ f_text' = write_backup_to_json_file(f_in)
    /\ f_pc' = "written"
    /\ UNCHANGED <<f_in, f_out>>
    /\ UNCHANGED <<replVars, mergeVars, mainVars>>

BackupReadCall ==
    /\ f_pc = "written"
    /\ f_out' = read_backup_from_json_file(f_text)
    /\ f_pc' = "read"
    /\ UNCHANGED <<f_in, f_text>>
    /\ UNCHANGED <<replVars, mergeVars, mainVars>>

NextBackup == BackupWriteCall \/ BackupReadCall

SpecBackup == InitBackup /\ [][NextBackup]_vars

-----------------------------------------------------------------------------
(* Claims about the --update-alt-text-from-csv mode, checked under Spec *)

\* the rows of the review file given to the run
CsvRows == read_review_data_from_csv_file(env.csv).rows

HasCsvRow(src) == \E j \in DOMAIN CsvRows : CsvRows[j][1] = src

\* the text of the last row for src
CsvText(src) ==
    CsvRows[CHOOSE j \in DOMAIN CsvRows :
                /\ CsvRows[j][1] = src
                /\ \A i \in DOMAIN CsvRows : CsvRows[i][1] = src => i <= j][2]

\* the replacement pass is over, completed or stopped by an exception
ReplacementOver == pc = "replace" /\ status \notin { "running", "interrupted" }

\* C20 (no generation): with --update-alt-text-from-csv the generation
\* capability is never invoked.
C20_NoGeneration == CsvMode => (gen_calls = <<>> /\ ~gen_pending)

\* C20 (merge): after the merge each Image has the text of the CSV's row for
\* its image_src, and the text it had before when the CSV has no such row.
C20_Merged ==
    (CsvMode /\ Generated) =>
        \A k \in ImageIxs :
            Mem(k).generated_alt_text =
                IF HasCsvRow(Mem(k).image_src) THEN CsvText(Mem(k).image_src)
                ELSE LoadedText(k)

\* C20 (untouched image): once the replacement pass is over, the chapter file
\* of an Image with no CSV row and no generated text is rewritten and still
\* holds the image's reference as it was.
C20_UnmatchedLeftUnchanged ==
    (CsvMode /\ ReplacementOver) =>
        \A k \in ImageIxs :
            (~HasCsvRow(Mem(k).image_src) /\ ~Truthy(Mem(k).generated_alt_text)) =>
                /\ Written(Mem(k).chapter_filepath)
                /\ Count(disk[FileIndex(Mem(k).chapter_filepath)],
                         Mem(k).original_img_elem_str) > 0

\* C20: with --update-alt-text-from-csv generation is never invoked; after
\* the merge an Image has the CSV's text for its image_src if the CSV has a
\* row for it and its earlier text otherwise; an image with no CSV row and no
\* generated text is left unchanged in the rewritten chapter file.
C20_CsvUpdate ==
    /\ C20_NoGeneration
    /\ C20_Merged
    /\ C20_UnmatchedLeftUnchanged

-----------------------------------------------------------------------------
(* Claims about failures of the configuration and of the conversion,        *)
(* checked under SpecFaults                                                  *)

ManifestError == env.atlas = NoFile
FilterFileError == args.image_file_filter = "missing.txt"
CsvFileError == args.update_alt_text_from_csv = "missing.csv"
ConfigError == ManifestError \/ FilterFileError \/ CsvFileError

\* main has not gone past its configuration steps (lines 126-172)
InConfiguration == pc \in { "confirm1", "read_atlas", "filter", "csv_check", "load" }

ChaptersRead == \E k \in DOMAIN log : log[k] = "read"

\* C18: a configuration error (unusable manifest, filter file missing or not
\* .txt, review CSV missing or not .csv) stops the run with a failure before
\* any chapter file is read, any generation call is made and any chapter file
\* is written, in every mode.
C18_ConfigErrorStopsRun ==
    ConfigError =>
        /\ InConfiguration
        /\ status # "done"
        /\ ~ChaptersRead
        /\ gen_calls = <<>> /\ ~gen_pending
        /\ ChapterWrites = {} /\ disk = env.disk

\* the part of C18 the run keeps: a missing or misnamed review CSV
C18_CsvErrorStopsRun ==
    CsvFileError =>
        /\ InConfiguration
        /\ status # "done"
        /\ ~ChaptersRead
        /\ gen_calls = <<>> /\ ~gen_pending
        /\ ChapterWrites = {} /\ disk = env.disk

\* the chapter files were read and one of them is converted by an executable
\* that fails or is missing
ConversionFailed ==
    /\ ChaptersRead
    /\ env.asciidoctor # "ok"
    /\ \E k \in DOMAIN all_chapters : all_chapters[k].chapter_format = "asciidoc"

-----------------------------------------------------------------------------
(* Claims about alt_text_replaced, checked under Spec *)

\* the positions (chapter, image) of the Images of all_chapters
ImagePositions ==
    UNION { { <<c, i>> : i \in DOMAIN all_chapters[c].images } :
                c \in DOMAIN all_chapters }

Replaced(p) == all_chapters[p[1]].images[p[2]].alt_text_replaced

\* the Images are those the scanner of this run created, and no replacement
\* has been made yet
FreshlyCollected == ~LoadMode /\ Loaded /\ pc # "replace"

\* a step keeps every alt_text_replaced that is true
KeepsReplaced ==
    \A p \in ImagePositions :
        Replaced(p) =>
            /\ p[1] \in DOMAIN all_chapters'
            /\ p[2] \in DOMAIN all_chapters'[p[1]].images
            /\ all_chapters'[p[1]].images[p[2]].alt_text_replaced

\* C21: alt_text_replaced is false for every Image the scanner creates, and
\* once true for an Image no later step of the run sets it back to false.
C21_ReplacedMonotone ==
    /\ [](FreshlyCollected => \A p \in ImagePositions : ~Replaced(p))
    /\ [][KeepsReplaced]_vars

\* a run that marked the Image of its first chapter, then replaced in its
\* second chapter and wrote the final snapshot
C21_Witness ==
    /\ status = "done"
    /\ ~LoadMode
    /\ Len(all_chapters) = 2
    /\ <<1, 1>> \in ImagePositions /\ Replaced(<<1, 1>>)
    /\ <<2, 1>> \in ImagePositions /\ Replaced(<<2, 1>>)

-----------------------------------------------------------------------------
(* Claims about the order of the steps of a run, checked under Spec *)

\* the position (chapter, image) of the Image of the j-th generation call
GenPos(j) == all_images(all_chapters)[gen_calls[j]]

\* position p is before position q: chapter order, then order in the chapter
Before(p, q) == p[1] < q[1] \/ (p[1] = q[1] /\ p[2] < q[2])

\* the index in all_chapters of the chapter of a file
ChapterIx(path) == CHOOSE c \in DOMAIN all_chapters : all_chapters[c].filepath = path

GenerationInOrder ==
    \A j, k \in DOMAIN gen_calls : j < k => Before(GenPos(j), GenPos(k))

WritesInOrder ==
    \A j, k \in ChapterWrites : j < k => ChapterIx(log[j]) < ChapterIx(log[k])

GenerationBeforeWrites == ChapterWrites # {} => (pc = "replace" /\ ~gen_pending)

\* a step makes at most one generation call, and none while a call is pending
\* or once the replacement pass has begun; it writes at most one file
OneAtATime ==
    /\ gen_calls' # gen_calls =>
           /\ ~gen_pending /\ gen_pending'
           /\ pc # "replace"
           /\ Len(gen_calls') = Len(gen_calls) + 1
    /\ Len(log') <= Len(log) + 1

\* C26: generation calls are made one at a time, in chapter order and then in
\* the order of the Images of a chapter; every generation call precedes the
\* first chapter rewrite; chapter files are rewritten one at a time in the
\* order of the chapters.
C26_PhaseOrder ==
    /\ [](GenerationInOrder /\ WritesInOrder /\ GenerationBeforeWrites)
    /\ [][OneAtATime]_vars

\* a completed run that made two generation calls for Images of two chapters
\* and rewrote both chapters
C26_Witness ==
    /\ status = "done"
    /\ Len(gen_calls) = 2
    /\ GenPos(1)[1] # GenPos(2)[1]
    /\ \E j, k \in ChapterWrites : j # k

-----------------------------------------------------------------------------
(* Claims about the final snapshot, checked under Spec *)

\* the Images the replacement engine marks in a run that rewrites every
\* chapter: those it attempts
EngineMarks(p) ==
    \/ ~args.do_not_replace_existing_alt_text
    \/ all_chapters[p[1]].images[p[2]].original_alt_text = <<>>

\* the chapters read back from the snapshot file
FinalSnapshot == read_backup_from_json_file(backup_file[1])

\* C27: a run that passed both confirmations and rewrote its chapters has
\* written a snapshot after the last chapter rewrite, and the snapshot records
\* alt_text_replaced = true for exactly the Images the engine marked.
C27_FinalSnapshot ==
    status = "done" =>
        /\ IsYes(answers.first) /\ IsYes(answers.second)
        /\ log # <<>> /\ log[Len(log)] = "backup"
        /\ backup_file # <<>>
        /\ Len(FinalSnapshot) = Len(all_chapters)
        /\ \A c \in DOMAIN all_chapters :
               Len(FinalSnapshot[c].images) = Len(all_chapters[c].images)
        /\ \A p \in ImagePositions :
               /\ FinalSnapshot[p[1]].images[p[2]].alt_text_replaced = Replaced(p)
               /\ Replaced(p) <=> EngineMarks(p)

\* a completed resumption with nothing left to generate, whose chapters were
\* rewritten and whose Images are marked
C27_Witness ==
    /\ status = "done"
    /\ LoadMode /\ ~CsvMode
    /\ gen_calls = <<>>
    /\ ChapterWrites # {}
    /\ \E p \in ImagePositions : Replaced(p)

-----------------------------------------------------------------------------
(* Claims about --image-file-filter, checked under Spec *)

FilterMode == args.image_file_filter = "filter.txt" /\ ~LoadMode

\* the effective entries of the filter file: its lines, trimmed, that are not
\* blank and do not start with #
EffectiveEntries ==
    { Strip(env.filter[k]) : k \in { j \in DOMAIN env.filter :
          Strip(env.filter[j]) # <<>> /\ Head(Strip(env.filter[j])) # "#" } }

NameListed(src) == FileName(src) \in EffectiveEntries

\* C28: with --image-file-filter and no snapshot, every Image of the run, and
\* so every Image sent to generation or rewritten, has a file name that is an
\* effective entry of the filter file; with no effective entry no Image is
\* processed: no generation call is made and no chapter file changes.
C28_FilteredRun ==
    FilterMode =>
        /\ \A p \in ImagePositions :
               NameListed(all_chapters[p[1]].images[p[2]].image_src)
        /\ \A j \in DOMAIN gen_calls :
               NameListed(ImageAt(all_chapters, GenPos(j)).image_src)
        /\ EffectiveEntries = {} => (gen_calls = <<>> /\ disk = env.disk)

\* the part of C28 the run keeps: filter files with an effective entry
C28_FilteredRunWithEntries ==
    (FilterMode /\ EffectiveEntries # {}) =>
        /\ \A p \in ImagePositions :
               NameListed(all_chapters[p[1]].images[p[2]].image_src)
        /\ \A j \in DOMAIN gen_calls :
               NameListed(ImageAt(all_chapters, GenPos(j)).image_src)

-----------------------------------------------------------------------------
(* Claims about the chapters without Images, checked under Spec *)

ChapterFile(c) == FileIndex(all_chapters[c].filepath)

\* C29: a chapter whose images list is empty is never rewritten and its file
\* stays as it was; only the files of chapters with at least one Image are
\* written or changed.
C29_EmptyChaptersUntouched ==
    /\ \A c \in DOMAIN all_chapters :
           all_chapters[c].images = <<>> =>
               /\ ~Written(all_chapters[c].filepath)
               /\ disk[ChapterFile(c)] = env.disk[ChapterFile(c)]
    /\ \A k \in ChapterWrites :
           \E c \in DOMAIN all_chapters :
               all_chapters[c].filepath = log[k] /\ all_chapters[c].images # <<>>
    /\ \A f \in DOMAIN disk :
           disk[f] # env.disk[f] =>
               \E c \in DOMAIN all_chapters :
                   /\ ChapterFile(c) = f
                   /\ Written(all_chapters[c].filepath)
                   /\ all_chapters[c].images # <<>>

\* a completed run on a chapter without Images and a chapter with one: only
\* the second was written
C29_Witness ==
    /\ status = "done"
    /\ Len(all_chapters) = 2
    /\ all_chapters[1].images = <<>>
    /\ all_chapters[2].images # <<>>
    /\ Written(all_chapters[2].filepath)
    /\ disk[ChapterFile(2)] # env.disk[ChapterFile(2)]

=============================================================================
